---- MODULE Spec2Model ----
(***************************************************************************)
(* State-machine model of HentaiDiscord.py: the domain resolver and its    *)
(* caches, the /bump cooldown, the reminder scheduler and the cross-ad     *)
(* scheduler.  Time is in whole seconds.                                   *)
(***************************************************************************)
EXTENDS Integers, Sequences, FiniteSets, TLC

\* ------------------------------------------------------------------ bounds
MaxAdvances == 4

\* ------------------------------------------------------- program constants
cache_ttl == 300

Absent == "absent"
NoEntry == [present |-> FALSE]

GuildIds == {"1", "2", "12"}

\* ord() of the characters of each guild id string
CharCodes(g) ==
  CASE g = "1" -> <<49>>
    [] g = "2" -> <<50>>
    [] g = "12" -> <<49, 50>>
    [] OTHER -> <<>>

RECURSIVE SumSeq(_)
SumSeq(s) == IF s = <<>> THEN 0 ELSE Head(s) + SumSeq(Tail(s))

\* DOMAINS, in insertion order (list(DOMAINS.values()) keeps it)
DomainKeys == <<"hentai", "anime">>
DomainValues == <<"hentaidiscord.com", "animediscord.com">>
InDomains(k) == \E i \in 1..Len(DomainKeys) : DomainKeys[i] = k
DOMAINS(k) == DomainValues[CHOOSE i \in 1..Len(DomainKeys) : DomainKeys[i] = k]

\* str.lower() on the strings the model uses
Lower(s) ==
  CASE s = "Anime" -> "anime"
    [] s = "HENTAI" -> "hentai"
    [] s = "TRUE" -> "true"
    [] OTHER -> s

\* Python truthiness of an optional string
Truthy(s) == s # Absent /\ s # ""

\* values a stored domainPreference may hold
PrefValues == {Absent, "", "hentai", "anime", "Anime"}
\* values of the PREFERRED_DOMAIN environment variable
PreferredValues == {Absent, "", "anime", "HENTAI", "bogus"}
\* values of LOAD_BALANCE_DOMAINS
LoadBalanceValues == {Absent, "true", "TRUE"}
\* values of GUILD_DOMAIN_MAPPING: unset, not JSON, or a JSON object
MappingValues ==
  { [kind |-> "unset", map |-> [g \in GuildIds |-> Absent]],
    [kind |-> "invalid", map |-> [g \in GuildIds |-> Absent]],
    [kind |-> "json", map |-> [g \in GuildIds |-> IF g = "1" THEN "Anime" ELSE IF g = "2" THEN "bogus" ELSE Absent]],
    [kind |-> "json", map |-> [g \in GuildIds |-> IF g = "2" THEN "hentai" ELSE Absent]] }

VARIABLES
  now,            \* datetime.utcnow(), seconds
  mongoUp,        \* the MongoDB server answers
  db,             \* self.db: "None" or "conn"
  env,            \* os.getenv values, fixed for the process
  servers,        \* db['servers']: guild id -> document or NoEntry
  domain_cache,   \* self.domain_cache
  server_cache,   \* self.server_cache
  obs,            \* what the last call read and returned (observation)
  lastCall,       \* per guild, the previous get_domain_for_guild call (observation)
  bot_bumps,      \* db['bot_bumps']: the bump log
  bot_bump_reminders, \* db['bot_bump_reminders']
  bump_reminders, \* db['bump_reminders'] (site reminders)
  user_settings,  \* db['user_settings']: user id -> botRemindersEnabled
  command_cooldowns,  \* self.command_cooldowns
  bump,           \* per user, the /bump invocation in progress
  rem,            \* the reminder_loop iteration in progress
  ad,             \* the cross_ad_loop iteration in progress
  cleanup,        \* the last cleanup_loop iteration
  prefLog         \* per guild, the stored preferences and since when (history)

coreVars == <<now, mongoUp, db, env, servers, domain_cache, server_cache, obs, lastCall, prefLog>>
bumpVars == <<bot_bumps, user_settings, command_cooldowns, bump>>
remVars == <<bot_bump_reminders, bump_reminders, rem>>
adVars == <<ad, cleanup>>
vars == <<coreVars, bumpVars, remVars, adVars>>

\* ---------------------------------------------------------------- helpers
\* (mutant) no handle is ever obtained
ConnectMongo_Never(dbv, up) == "None"

\* connect_mongo: a cached self.db is returned without a ping
ConnectMongo(dbv, up) ==
  IF dbv = "None" THEN (IF up THEN "conn" ELSE "None") ELSE dbv

\* a store operation through safe_connect_mongo() succeeds
StoreReadable(dbv, up) == ConnectMongo(dbv, up) # "None" /\ up

HashSplit(g) == DomainValues[(SumSeq(CharCodes(g)) % Len(DomainValues)) + 1]

\* (mutant) the guild mapping is consulted before PREFERRED_DOMAIN
EnvDomain_MappingFirst(g, e) ==
  IF g # "" /\ e.GUILD_DOMAIN_MAPPING.kind = "json"
          /\ e.GUILD_DOMAIN_MAPPING.map[g] # Absent
          /\ InDomains(Lower(e.GUILD_DOMAIN_MAPPING.map[g]))
    THEN DOMAINS(Lower(e.GUILD_DOMAIN_MAPPING.map[g]))
  ELSE IF Truthy(e.PREFERRED_DOMAIN) /\ InDomains(Lower(e.PREFERRED_DOMAIN))
    THEN DOMAINS(Lower(e.PREFERRED_DOMAIN))
  ELSE IF g # "" /\ e.LOAD_BALANCE_DOMAINS = "true"
    THEN HashSplit(g)
  ELSE DOMAINS("hentai")

\* rules 2..5 of get_domain_for_guild
EnvDomain(g, e) ==
  IF Truthy(e.PREFERRED_DOMAIN) /\ InDomains(Lower(e.PREFERRED_DOMAIN))
    THEN DOMAINS(Lower(e.PREFERRED_DOMAIN))
  ELSE IF g # "" /\ e.GUILD_DOMAIN_MAPPING.kind = "json"
          /\ e.GUILD_DOMAIN_MAPPING.map[g] # Absent
          /\ InDomains(Lower(e.GUILD_DOMAIN_MAPPING.map[g]))
    THEN DOMAINS(Lower(e.GUILD_DOMAIN_MAPPING.map[g]))
  ELSE IF g # "" /\ e.LOAD_BALANCE_DOMAINS = "true"
    THEN HashSplit(g)
  ELSE DOMAINS("hentai")

\* rule 1 applies: the read succeeded and the preference is a key of DOMAINS
PrefApplies(g, dbv, up, srv) ==
  /\ g # ""
  /\ StoreReadable(dbv, up)
  /\ srv[g].present
  /\ Truthy(srv[g].domainPreference)
  /\ InDomains(srv[g].domainPreference)

\* (mutant) rule 1 returns the stored key instead of DOMAINS[key]
ResolveDomain_PrefKey(g, dbv, up, srv, e) ==
  IF PrefApplies(g, dbv, up, srv) THEN srv[g].domainPreference
  ELSE EnvDomain(g, e)

\* the hostname a cache miss computes
ResolveDomain(g, dbv, up, srv, e) ==
  IF PrefApplies(g, dbv, up, srv) THEN DOMAINS(srv[g].domainPreference)
  ELSE EnvDomain(g, e)

\* (mutant) an entry never expires
CacheFresh_Forever(cache, g, t) == cache[g].present

\* (mutant) an entry exactly cache_ttl old still counts as fresh
CacheFresh_Inclusive(cache, g, t) ==
  cache[g].present /\ t - cache[g].timestamp <= cache_ttl

CacheFresh(cache, g, t) ==
  cache[g].present /\ t - cache[g].timestamp < cache_ttl

\* get_domain_for_guild: [domain, hit, cache, db]
get_domain_for_guild(g, cache, dbv, up, srv, e, t) ==
  IF CacheFresh(cache, g, t)
    THEN [domain |-> cache[g].domain, hit |-> TRUE, age |-> t - cache[g].timestamp,
          cache |-> cache, db |-> dbv]
    ELSE LET d == ResolveDomain(g, dbv, up, srv, e) IN
         [domain |-> d, hit |-> FALSE, age |-> 0,
          cache |-> [cache EXCEPT ![g] = [present |-> TRUE, domain |-> d, timestamp |-> t]],
          db |-> ConnectMongo(dbv, up)]

\* get_server_data_cached: [data, hit, cache, db]
get_server_data_cached(g, cache, dbv, up, srv, t) ==
  IF CacheFresh(cache, g, t)
    THEN [data |-> cache[g].data, hit |-> TRUE, age |-> t - cache[g].timestamp,
          cache |-> cache, db |-> dbv]
    ELSE IF StoreReadable(dbv, up)
      THEN [data |-> srv[g], hit |-> FALSE, age |-> 0,
            cache |-> [cache EXCEPT ![g] = [present |-> TRUE, data |-> srv[g], timestamp |-> t]],
            db |-> ConnectMongo(dbv, up)]
      ELSE [data |-> NoEntry, hit |-> FALSE, age |-> 0,
            cache |-> cache, db |-> ConnectMongo(dbv, up)]

\* (mutant) the entry is left in place
invalidate_server_cache_Keep(cache, g) == cache

invalidate_server_cache(cache, g) == [cache EXCEPT ![g] = NoEntry]

\* (mutant) the domain entry is left in place
delete_domain_entry_Keep(cache, g) == cache

\* cache_key = f"domain_{guild_id}"; if cache_key in bot.domain_cache: del ...
delete_domain_entry(cache, g) == [cache EXCEPT ![g] = NoEntry]

\* the stored preference of a guild, Absent when it has no document
StoredPref(srv, g) == IF srv[g].present THEN srv[g].domainPreference ELSE Absent

NoObs == [op |-> "none"]
NoCall == [present |-> FALSE]

\* the history of a store whose preferences were last written at time t
PrefLogOf(srv, t) == [g \in GuildIds |-> <<[pref |-> StoredPref(srv, g), at |-> t]>>]

\* no preference history is kept (specifications that do not follow it)
NoPrefLog == [g \in GuildIds |-> <<>>]

\* servers.update_one({'guildId': g}, {'$set'/'$unset': {'domainPreference': ..}})
UpdatePreference(srv, g, set_domain) ==
  IF srv[g].present
    THEN [srv EXCEPT ![g].domainPreference = IF set_domain = "auto" THEN Absent ELSE set_domain]
    ELSE srv

\* the commands that end by deleting cache entries of their guild
InvalidatingOps == {"domain", "setadchannel", "enablecrossad"}

\* the observation o is a command that just deleted the guild's entry of the
\* given cache ("server" or "domain"), and nothing was observed since
AfterInvalidation(o, g, which) ==
  /\ o.op \in InvalidatingOps
  /\ o.guild = g
  /\ o.reply = "ok"
  /\ IF which = "server" THEN o.invServer ELSE o.invDomain

\* the value held by a cache entry, Absent when the cache has no entry
CachedValue(cache, g, field) == IF cache[g].present THEN cache[g][field] ELSE Absent

\* the value of the entry the invalidating command o deleted
InvalidatedEntry(o, g, which) ==
  IF AfterInvalidation(o, g, which)
    THEN (IF which = "server" THEN o.oldServer ELSE o.oldDomain)
    ELSE Absent

\* --------------------------------------------------- the domain resolver
\* the record kept of a get_domain_for_guild call made in the current state
DomainCallRecord(g) ==
  LET r == get_domain_for_guild(g, domain_cache, db, mongoUp, servers, env, now)
      readable == StoreReadable(db, mongoUp)
  IN [present |-> TRUE, domain |-> r.domain, hit |-> r.hit,
      pref |-> StoredPref(servers, g), readable |-> readable,
      \* the latest cache-missing call that read the store
      read |-> IF ~r.hit /\ readable
                 THEN [present |-> TRUE, pref |-> StoredPref(servers, g), domain |-> r.domain]
               ELSE IF lastCall[g].present THEN lastCall[g].read
               ELSE NoCall]

\* what a get_domain_for_guild call made in the current state read and returned
DomainCallObs(g) ==
  LET r == get_domain_for_guild(g, domain_cache, db, mongoUp, servers, env, now)
  IN [op |-> "get_domain", guild |-> g, hit |-> r.hit,
      entryAge |-> IF domain_cache[g].present THEN now - domain_cache[g].timestamp ELSE -1,
      domain |-> r.domain, pref |-> StoredPref(servers, g),
      readable |-> StoreReadable(db, mongoUp), prev |-> lastCall[g],
      afterInvalidation |-> AfterInvalidation(obs, g, "domain"),
      old |-> InvalidatedEntry(obs, g, "domain")]

\* a call of get_domain_for_guild from any of its call sites
GetDomainCall(g) ==
  LET r == get_domain_for_guild(g, domain_cache, db, mongoUp, servers, env, now)
  IN /\ domain_cache' = r.cache
     /\ db' = r.db
     /\ obs' = DomainCallObs(g)
     /\ lastCall' = [lastCall EXCEPT ![g] = DomainCallRecord(g)]
     /\ UNCHANGED <<now, mongoUp, env, servers, server_cache, prefLog>>
     /\ UNCHANGED <<bumpVars, remVars, adVars>>

\* a call of get_server_data_cached from any of its call sites
GetServerDataCall(g) ==
  LET r == get_server_data_cached(g, server_cache, db, mongoUp, servers, now)
      entryAge == IF server_cache[g].present THEN now - server_cache[g].timestamp ELSE -1
  IN /\ server_cache' = r.cache
     /\ db' = r.db
     /\ obs' = [op |-> "get_server_data", guild |-> g, hit |-> r.hit, entryAge |-> entryAge,
                data |-> r.data, doc |-> servers[g],
                readable |-> StoreReadable(db, mongoUp),
                afterInvalidation |-> AfterInvalidation(obs, g, "server"),
                old |-> InvalidatedEntry(obs, g, "server")]
     /\ UNCHANGED <<now, mongoUp, env, servers, domain_cache, lastCall, prefLog>>
     /\ UNCHANGED <<bumpVars, remVars, adVars>>

\* /domain [set_domain:<hentai|anime|auto>]; set_domain = Absent shows the
\* current domain
DomainCommand(g, set_domain, admin) ==
  LET d == ConnectMongo(db, mongoUp)
      r == get_server_data_cached(g, server_cache, d, mongoUp, servers, now)
      reply(x) == [op |-> "domain", guild |-> g, reply |-> x, listed |-> servers[g].present,
                   up |-> mongoUp, connected |-> d # "None", hit |-> r.hit,
                   found |-> r.data.present, wrote |-> FALSE, applied |-> FALSE,
                   cacheChanged |-> x = "not_listed" /\ r.cache # server_cache]
  IN /\ UNCHANGED <<bumpVars, remVars, adVars>>
     /\ UNCHANGED <<now, mongoUp, env>>
     /\ IF set_domain # Absent /\ ~admin
          THEN /\ obs' = reply("not_administrator")
               /\ UNCHANGED <<db, servers, server_cache, domain_cache, lastCall>>
        ELSE IF d = "None"
          THEN /\ obs' = reply("unavailable")
               /\ db' = d
               /\ UNCHANGED <<servers, server_cache, domain_cache, lastCall>>
        ELSE IF ~r.data.present
          THEN /\ obs' = reply("not_listed")
               /\ db' = d
               /\ server_cache' = r.cache
               /\ UNCHANGED <<servers, domain_cache, lastCall>>
        ELSE IF set_domain = Absent
          THEN \* get_domain_for_guild, then servers.find_one for the reply
               /\ obs' = DomainCallObs(g)
               /\ db' = d
               /\ lastCall' = [lastCall EXCEPT ![g] = DomainCallRecord(g)]
               /\ domain_cache' =
                    get_domain_for_guild(g, domain_cache, d, mongoUp, servers, env, now).cache
               /\ server_cache' = r.cache
               /\ UNCHANGED servers
        ELSE IF ~mongoUp
          THEN \* update_one raises; caught at the command boundary
               /\ obs' = reply("database_error")
               /\ db' = d
               /\ server_cache' = r.cache
               /\ UNCHANGED <<servers, domain_cache, lastCall>>
        ELSE /\ servers' = UpdatePreference(servers, g, set_domain)
             /\ db' = d
             /\ server_cache' = invalidate_server_cache(r.cache, g)
             /\ domain_cache' = delete_domain_entry(domain_cache, g)
             /\ obs' = [op |-> "domain", guild |-> g, reply |-> "ok",
                        listed |-> servers[g].present, up |-> mongoUp,
                        connected |-> d # "None", hit |-> r.hit, found |-> r.data.present,
                        wrote |-> UpdatePreference(servers, g, set_domain) # servers,
                        applied |-> /\ servers[g].present
                                    /\ UpdatePreference(servers, g, set_domain)[g].domainPreference
                                         = (IF set_domain = "auto" THEN Absent ELSE set_domain),
                        cacheChanged |-> TRUE,
                        field |-> "domainPreference",
                        value |-> (IF set_domain = "auto" THEN Absent ELSE set_domain),
                        invServer |-> TRUE, invDomain |-> TRUE,
                        oldServer |-> CachedValue(r.cache, g, "data"),
                        oldDomain |-> CachedValue(domain_cache, g, "domain")]
             /\ UNCHANGED lastCall

\* ------------------------------------------------------- the environment
TimeSteps == {100}

Advance(d) ==
  /\ now + d <= MaxAdvances * 100
  /\ now' = now + d
  /\ UNCHANGED <<mongoUp, db, env, servers, domain_cache, server_cache, obs, lastCall, prefLog>>
  /\ UNCHANGED <<bumpVars, remVars, adVars>>

\* the MongoDB server stops answering
MongoFails ==
  /\ mongoUp
  /\ mongoUp' = FALSE
  /\ UNCHANGED <<now, db, env, servers, domain_cache, server_cache, obs, lastCall, prefLog>>
  /\ UNCHANGED <<bumpVars, remVars, adVars>>

\* the MongoDB server answers again
MongoRecovers ==
  /\ ~mongoUp
  /\ mongoUp' = TRUE
  /\ UNCHANGED <<now, db, env, servers, domain_cache, server_cache, obs, lastCall, prefLog>>
  /\ UNCHANGED <<bumpVars, remVars, adVars>>

EnvValues ==
  [PREFERRED_DOMAIN : PreferredValues,
   GUILD_DOMAIN_MAPPING : MappingValues,
   LOAD_BALANCE_DOMAINS : LoadBalanceValues]

\* a document of db['servers']: crossAdEnabled is "true", "false" or Absent
FullDoc(pref, enabled, channel, categoriesOk) ==
  [present |-> TRUE, domainPreference |-> pref, crossAdEnabled |-> enabled,
   crossAdChannelId |-> channel, categoriesOk |-> categoriesOk]

ServerDoc(pref) == FullDoc(pref, Absent, Absent, TRUE)

Users == {"u1", "u2"}
Idle == [pc |-> "idle"]

\* the state of the collections and loops that a specification leaves alone
QuietBump ==
  /\ bot_bumps = {}
  /\ user_settings = [u \in Users |-> Absent]
  /\ command_cooldowns = [k \in Users \X {"bump", "refresh"} |-> NoEntry]
  /\ bump = [u \in Users |-> Idle]

QuietReminders ==
  /\ bot_bump_reminders = {}
  /\ bump_reminders = {}
  /\ rem = Idle

QuietAds == ad = Idle /\ cleanup = Idle


\* ------------------------------------------------------------------------
\* SpecResolve: the precedence chain on every configuration, store state and
\* guild id, without the passage of time.
InitResolve ==
  /\ now = 0
  /\ mongoUp \in BOOLEAN
  /\ db = "None"
  /\ env \in EnvValues
  /\ \E p \in PrefValues :
       servers = [g \in GuildIds |-> IF g = "1" THEN ServerDoc(p) ELSE NoEntry]
  /\ domain_cache = [g \in GuildIds |-> NoEntry]
  /\ server_cache = [g \in GuildIds |-> NoEntry]
  /\ obs = NoObs
  /\ lastCall = [g \in GuildIds |-> NoCall]
  /\ prefLog = NoPrefLog
  /\ QuietBump /\ QuietReminders /\ QuietAds

\* a listed guild with an odd character sum, an unlisted one with an even sum
ResolveGuilds == {"1", "2"}

NextResolve ==
  \/ \E g \in ResolveGuilds : GetDomainCall(g)
  \/ MongoFails

SpecResolve == InitResolve /\ [][NextResolve]_vars

\* ------------------------------------------------------------------------
\* SpecDomain: the two caches of one guild over time, with /domain and
\* store outages, under a few configurations.
DomainGuilds == {"1"}

DomainEnvs ==
  { e \in EnvValues :
      /\ e.PREFERRED_DOMAIN = Absent
      /\ e.GUILD_DOMAIN_MAPPING.kind = "unset"
      /\ e.LOAD_BALANCE_DOMAINS \in {Absent, "true"} }

InitDomain ==
  /\ now = 0
  /\ mongoUp \in BOOLEAN
  /\ db = "None"
  /\ env \in DomainEnvs
  /\ \E d \in {NoEntry, ServerDoc(Absent), ServerDoc("anime")} :
       servers = [g \in GuildIds |-> IF g \in DomainGuilds THEN d ELSE NoEntry]
  /\ domain_cache = [g \in GuildIds |-> NoEntry]
  /\ server_cache = [g \in GuildIds |-> NoEntry]
  /\ obs = NoObs
  /\ lastCall = [g \in GuildIds |-> NoCall]
  /\ prefLog = NoPrefLog
  /\ QuietBump /\ QuietReminders /\ QuietAds

NextDomain ==
  \/ \E g \in DomainGuilds : GetDomainCall(g)
  \/ \E g \in DomainGuilds : GetServerDataCall(g)
  \/ \E g \in DomainGuilds, s \in {Absent, "hentai", "anime", "auto"}, admin \in BOOLEAN :
       DomainCommand(g, s, admin) /\ UNCHANGED prefLog
  \/ \E d \in TimeSteps : Advance(d)
  \/ MongoFails
  \/ MongoRecovers

SpecDomain == InitDomain /\ [][NextDomain]_vars

\* ------------------------------------------------------------------------
\* /bump
\* ------------------------------------------------------------------------
bump_cooldown == 3600
bump_rate_limit == 5

\* the order in which find() returns the documents of db['servers']
GuildOrder == <<"1", "2", "12">>

\* (mutant) the query leaves out the crossAdEnabled condition
OptedIn_AnyChannel(doc) == doc.present /\ doc.crossAdChannelId # Absent

\* {'crossAdEnabled': True, 'crossAdChannelId': {'$exists': True}}
OptedIn(doc) ==
  doc.present /\ doc.crossAdEnabled = "true" /\ doc.crossAdChannelId # Absent

\* (mutant) the query does not exclude the bumping guild
OtherServers_IncludingSelf(srv, g) ==
  SelectSeq(GuildOrder, LAMBDA h : OptedIn(srv[h]))

\* (mutant) the query leaves out the opt-in conditions
OtherServers_Unfiltered(srv, g) ==
  SelectSeq(GuildOrder, LAMBDA h : h # g)

\* servers.find({'guildId': {'$ne': g}, 'crossAdEnabled': True, ...})
OtherServers(srv, g) ==
  SelectSeq(GuildOrder, LAMBDA h : h # g /\ OptedIn(srv[h]))

\* (mutant) a rejected call stores the time of the call too
is_rate_limited_Stamp(cds, u, command, c, t) ==
  [limited |-> cds[<<u, command>>].present /\ t - cds[<<u, command>>].at < c,
   cooldowns |-> [cds EXCEPT ![<<u, command>>] = [present |-> TRUE, at |-> t]]]

\* is_rate_limited: [limited, cooldowns]
is_rate_limited(cds, u, command, c, t) ==
  IF cds[<<u, command>>].present /\ t - cds[<<u, command>>].at < c
    THEN [limited |-> TRUE, cooldowns |-> cds]
    ELSE [limited |-> FALSE,
          cooldowns |-> [cds EXCEPT ![<<u, command>>] = [present |-> TRUE, at |-> t]]]

\* (mutant) the lookup of the latest bump finds nothing
LastBump_None(log, g) == NoEntry

\* bot_bumps.find_one({'guildId': g}, sort=[('bumpedAt', -1)])
LastBump(log, g) ==
  LET recs == {r \in log : r.guildId = g} IN
  IF recs = {} THEN NoEntry
  ELSE LET r == CHOOSE r \in recs : \A q \in recs : q.bumpedAt <= r.bumpedAt
       IN [present |-> TRUE, bumpedAt |-> r.bumpedAt]

\* (mutant) a bump exactly one hour old still blocks
CooldownActive_Inclusive(t, bumpedAt) == t - bumpedAt <= bump_cooldown

\* time_diff < timedelta(hours=1)
CooldownActive(t, bumpedAt) == t - bumpedAt < bump_cooldown

\* int((next_bump - now).total_seconds() / 60), next_bump - now being positive
RemainingMinutes(t, bumpedAt) == ((bumpedAt + bump_cooldown) - t) \div 60

BumpObs(u, g, reply, check, mins) ==
  [op |-> "bump", user |-> u, guild |-> g, reply |-> reply, check |-> check,
   mins |-> mins, at |-> now, attempts |-> <<>>]

\* the rate-limit check and interaction.response.defer()
BumpInvoke(u, g) ==
  LET rl == is_rate_limited(command_cooldowns, u, "bump", bump_rate_limit, now) IN
  /\ bump[u].pc = "idle"
  /\ command_cooldowns' = rl.cooldowns
  /\ IF rl.limited
       THEN /\ obs' = BumpObs(u, g, "rate_limited", "none", 0)
            /\ UNCHANGED bump
       ELSE /\ bump' = [bump EXCEPT ![u] = [pc |-> "deferred", guild |-> g]]
            /\ UNCHANGED obs
  /\ UNCHANGED <<now, mongoUp, db, env, servers, domain_cache, server_cache, lastCall, prefLog>>
  /\ UNCHANGED <<bot_bumps, user_settings>>
  /\ UNCHANGED <<remVars, adVars>>

\* from the connection to the store up to the first delivery: the listing and
\* opt-in checks, the cooldown check, other_servers and build_ad_embed
BumpCheck(u) ==
  LET g == bump[u].guild
      d == ConnectMongo(db, mongoUp)
      last == LastBump(bot_bumps, g)
      others == OtherServers(servers, g)
      dom == get_domain_for_guild(g, domain_cache, d, mongoUp, servers, env, now)
      done(reply, check, mins) ==
        /\ obs' = BumpObs(u, g, reply, check, mins)
        /\ bump' = [bump EXCEPT ![u] = Idle]
  IN /\ bump[u].pc = "deferred"
     /\ db' = d
     /\ IF d = "None"
          THEN done("unavailable", "none", 0) /\ UNCHANGED domain_cache
        ELSE IF ~mongoUp
          THEN done("database_error", "none", 0) /\ UNCHANGED domain_cache
        ELSE IF ~servers[g].present
          THEN done("not_listed", "none", 0) /\ domain_cache' = dom.cache
        ELSE IF ~OptedIn(servers[g])
          THEN /\ done(IF servers[g].crossAdEnabled = "false" \/ servers[g].crossAdChannelId = Absent
                         THEN "not_configured" ELSE "not_enabled", "none", 0)
               /\ UNCHANGED domain_cache
        ELSE IF last.present /\ CooldownActive(now, last.bumpedAt)
          THEN /\ done("cooldown", "rejected", RemainingMinutes(now, last.bumpedAt))
               /\ UNCHANGED domain_cache
        ELSE IF others = <<>>
          THEN done("no_others", "accepted", 0) /\ UNCHANGED domain_cache
        ELSE IF ~servers[g].categoriesOk
          THEN \* build_ad_embed raises; caught at the command boundary
               done("database_error", "accepted", 0) /\ UNCHANGED domain_cache
        ELSE /\ obs' = BumpObs(u, g, "sending", "accepted", 0)
             /\ domain_cache' = dom.cache
             /\ bump' = [bump EXCEPT ![u] =
                           [pc |-> "sending", guild |-> g, now |-> now, others |-> others,
                            i |-> 1, sent_count |-> 0, failed_count |-> 0,
                            attempts |-> <<>>]]
     /\ UNCHANGED <<now, mongoUp, env, servers, server_cache, lastCall, prefLog>>
     /\ UNCHANGED <<bot_bumps, user_settings, command_cooldowns>>
     /\ UNCHANGED <<remVars, adVars>>

DeliveryOutcomes == {"sent", "failed", "no_send"}

\* one iteration of the delivery loop: fetch_channel and channel.send
BumpDeliver(u, outcome) ==
  LET b == bump[u] IN
  /\ b.pc = "sending"
  /\ b.i <= Len(b.others)
  /\ bump' = [bump EXCEPT ![u] =
       [b EXCEPT !.i = b.i + 1,
                 !.attempts = Append(b.attempts, [to |-> b.others[b.i], outcome |-> outcome]),
                 !.sent_count = IF outcome = "sent" THEN b.sent_count + 1 ELSE b.sent_count,
                 !.failed_count = IF outcome = "failed" THEN b.failed_count + 1 ELSE b.failed_count]]
  /\ UNCHANGED <<coreVars, bot_bumps, user_settings, command_cooldowns, remVars, adVars>>

\* (mutant) the reminder is created after every recorded bump
WantsReminder_Always(sent_count, setting) == TRUE

\* (mutant) the reminder is created whenever the user has the setting on
WantsReminder_SettingOnly(sent_count, setting) == setting = "true"

\* if sent_count > 0: ... if user_setting and user_setting.get('botRemindersEnabled', False)
WantsReminder(sent_count, setting) == sent_count > 0 /\ setting = "true"

\* after the loop: record the bump, create the reminder, reply
BumpRecord(u) ==
  LET b == bump[u]
      wantsReminder == WantsReminder(b.sent_count, user_settings[u])
  IN /\ b.pc = "sending"
     /\ b.i > Len(b.others)
     /\ bump' = [bump EXCEPT ![u] = Idle]
     /\ IF ~mongoUp
          THEN \* insert_one raises; caught at the command boundary
               /\ obs' = [BumpObs(u, b.guild, "database_error", "accepted", 0)
                            EXCEPT !.attempts = b.attempts]
               /\ UNCHANGED <<bot_bumps, bot_bump_reminders>>
          ELSE /\ bot_bumps' = bot_bumps \cup
                     {[guildId |-> b.guild, bumpedAt |-> b.now, userId |-> u]}
               /\ IF wantsReminder
                    THEN bot_bump_reminders' = bot_bump_reminders \cup
                           {[userId |-> u, guildId |-> b.guild,
                             remindAt |-> b.now + 3600, enabled |-> TRUE,
                             createdAt |-> b.now]}
                    ELSE UNCHANGED bot_bump_reminders
               /\ obs' = [op |-> "bump", user |-> u, guild |-> b.guild, reply |-> "success",
                          check |-> "accepted", mins |-> 0, at |-> b.now,
                          sent_count |-> b.sent_count, failed_count |-> b.failed_count,
                          reminder |-> wantsReminder, attempts |-> b.attempts]
     /\ UNCHANGED <<now, mongoUp, db, env, servers, domain_cache, server_cache, lastCall, prefLog>>
     /\ UNCHANGED <<user_settings, command_cooldowns, bump_reminders, rem, adVars>>

\* time passes between the steps of the commands
BumpTimeSteps == {1800, 1830}
MaxBumpAdvances == 2

BumpClock(d) ==
  /\ now + d <= MaxBumpAdvances * 1830
  /\ now' = now + d
  /\ UNCHANGED <<mongoUp, db, env, servers, domain_cache, server_cache, obs, lastCall, prefLog>>
  /\ UNCHANGED <<bumpVars, remVars, adVars>>

NoEnv ==
  [PREFERRED_DOMAIN |-> Absent,
   GUILD_DOMAIN_MAPPING |-> [kind |-> "unset", map |-> [g \in GuildIds |-> Absent]],
   LOAD_BALANCE_DOMAINS |-> Absent]

In(channel) == FullDoc(Absent, "true", channel, TRUE)

\* the guild the /bump commands are run in
BumpGuilds == {"1"}

BumpServerConfigs ==
  { [g \in GuildIds |-> IF g = "1" THEN In("c1") ELSE IF g = "2" THEN In("c2") ELSE NoEntry],
    [g \in GuildIds |-> IF g = "1" THEN In("c1")
                         ELSE IF g = "2" THEN FullDoc(Absent, "false", "c2", TRUE)
                         ELSE FullDoc(Absent, Absent, "c12", TRUE)],
    [g \in GuildIds |-> IF g = "1" THEN FullDoc(Absent, "true", "c1", FALSE)
                         ELSE IF g = "2" THEN In("c2") ELSE NoEntry],
    [g \in GuildIds |-> IF g = "1" THEN FullDoc(Absent, "false", Absent, TRUE)
                         ELSE IF g = "2" THEN In("c2") ELSE NoEntry],
    [g \in GuildIds |-> IF g = "1" THEN FullDoc(Absent, Absent, "c1", TRUE)
                         ELSE IF g = "2" THEN In("c2") ELSE NoEntry],
    [g \in GuildIds |-> IF g = "2" THEN In("c2") ELSE NoEntry] }

InitBump ==
  /\ now = 0
  /\ mongoUp = TRUE
  /\ db = "None"
  /\ env = NoEnv
  /\ servers \in BumpServerConfigs
  /\ domain_cache = [g \in GuildIds |-> NoEntry]
  /\ server_cache = [g \in GuildIds |-> NoEntry]
  /\ obs = NoObs
  /\ lastCall = [g \in GuildIds |-> NoCall]
  /\ prefLog = NoPrefLog
  /\ bot_bumps = {}
  /\ user_settings = [u \in Users |-> IF u = "u1" THEN "true" ELSE Absent]
  /\ command_cooldowns = [k \in Users \X {"bump", "refresh"} |-> NoEntry]
  /\ bump = [u \in Users |-> Idle]
  /\ QuietReminders /\ QuietAds

NextBump ==
  \/ \E u \in Users, g \in BumpGuilds : BumpInvoke(u, g)
  \/ \E u \in Users : BumpCheck(u)
  \/ \E u \in Users, o \in DeliveryOutcomes : BumpDeliver(u, o)
  \/ \E u \in Users : BumpRecord(u)
  \/ \E d \in BumpTimeSteps : BumpClock(d)
  \/ MongoFails

SpecBump == InitBump /\ [][NextBump]_vars

\* ========================================================================
\* Claims about the domain resolver and the caches
\* ========================================================================
Hostnames == {"hentaidiscord.com", "animediscord.com"}
HostOf(k) == IF k = "hentai" THEN "hentaidiscord.com" ELSE "animediscord.com"

\* the hostname each rule (a)..(e) yields, Absent when the rule is skipped;
\* pref is the stored preference as rule (a) sees it
RuleValues(g, pref, e) ==
  << IF pref \in {"hentai", "anime"} THEN HostOf(pref) ELSE Absent,
     IF Lower(e.PREFERRED_DOMAIN) \in {"hentai", "anime"}
       THEN HostOf(Lower(e.PREFERRED_DOMAIN)) ELSE Absent,
     IF e.GUILD_DOMAIN_MAPPING.kind = "json"
          /\ Lower(e.GUILD_DOMAIN_MAPPING.map[g]) \in {"hentai", "anime"}
       THEN HostOf(Lower(e.GUILD_DOMAIN_MAPPING.map[g])) ELSE Absent,
     IF e.LOAD_BALANCE_DOMAINS = "true"
       THEN (IF SumSeq(CharCodes(g)) % 2 = 0 THEN "hentaidiscord.com" ELSE "animediscord.com")
       ELSE Absent,
     "hentaidiscord.com" >>

FirstRule(rs) ==
  rs[CHOOSE i \in 1..Len(rs) : rs[i] # Absent /\ \A j \in 1..(i - 1) : rs[j] = Absent]

\* C1 as stated: a call that finds no usable cache entry returns the first of
\* (a) stored domainPreference, (b) PREFERRED_DOMAIN, (c) GUILD_DOMAIN_MAPPING,
\* (d) hash split, (e) default that yields a hostname, whatever the store's state.
C1_Original ==
  (obs.op = "get_domain" /\ ~obs.hit)
    => obs.domain = FirstRule(RuleValues(obs.guild, obs.pref, env))

\* C1 amended: the same precedence chain, where rule (a) yields a hostname only
\* when the read of the store succeeds; an unreachable store makes the stored
\* preference count as absent.
C1_PrecedenceChain ==
  (obs.op = "get_domain" /\ ~obs.hit)
    => obs.domain = FirstRule(RuleValues(obs.guild,
                                         IF obs.readable THEN obs.pref ELSE Absent, env))

\* C1 witness: an uncached call where the stored preference wins over a
\* conflicting PREFERRED_DOMAIN
C1_Witness ==
  /\ obs.op = "get_domain" /\ ~obs.hit /\ obs.readable
  /\ obs.pref = "anime" /\ env.PREFERRED_DOMAIN = "HENTAI"
  /\ obs.domain = "animediscord.com"

\* C2 as stated: every call returns one of the two hostnames, and a call returns
\* what the previous call for the same guild returned when the configuration and
\* the stored preference are the same at both calls.
C2_Original ==
  obs.op = "get_domain"
    => /\ obs.domain \in Hostnames
       /\ (obs.prev.present /\ obs.prev.pref = obs.pref) => obs.domain = obs.prev.domain

\* C2 amended: every call returns one of the two hostnames; a call answered from
\* the cache repeats the previous call's hostname; and a call that reads the store
\* returns what the latest earlier store-reading call returned for the same
\* stored preference.
C2_RangeAndDeterminism ==
  obs.op = "get_domain"
    => /\ obs.domain \in Hostnames
       /\ obs.hit => (obs.prev.present /\ obs.domain = obs.prev.domain)
       /\ (~obs.hit /\ obs.readable /\ obs.prev.present /\ obs.prev.read.present
             /\ obs.prev.read.pref = obs.pref)
            => obs.domain = obs.prev.read.domain

\* C2 witness: a second store-reading call, after the cache entry of the first
\* expired, returns the same preferred hostname
C2_Witness ==
  /\ obs.op = "get_domain" /\ ~obs.hit /\ obs.readable /\ obs.entryAge >= cache_ttl
  /\ obs.prev.present /\ obs.prev.read.present /\ obs.prev.read.pref = obs.pref
  /\ obs.pref = "anime" /\ obs.domain = "animediscord.com"

\* C10: a value is returned from a cache entry only when the entry is younger
\* than 300 seconds; an entry 300 seconds old or older is bypassed and the value
\* is computed again (from the store when it can be read).
C10_NoStaleCacheReturn ==
  obs.op \in {"get_domain", "get_server_data"}
    => /\ obs.hit => (obs.entryAge >= 0 /\ obs.entryAge < 300)
       /\ obs.entryAge >= 300
            => /\ ~obs.hit
               /\ obs.op = "get_domain"
                    => obs.domain = FirstRule(RuleValues(obs.guild,
                                        IF obs.readable THEN obs.pref ELSE Absent, env))
               /\ obs.op = "get_server_data"
                    => obs.data = (IF obs.readable THEN obs.doc ELSE NoEntry)

\* C10 witness: a call that finds an entry exactly 300 seconds old and returns a
\* hostname different from the one that was cached
C10_Witness ==
  /\ obs.op = "get_domain" /\ obs.entryAge = 300 /\ ~obs.hit
  /\ obs.prev.present /\ obs.prev.domain # obs.domain

\* the next call of get_domain_for_guild after a /domain command that set the
\* preference of a listed guild returns in this step, the store being available
CallAfterDomainSet ==
  /\ obs.op = "domain" /\ obs.reply = "ok" /\ obs.listed
  /\ obs'.op = "get_domain" /\ obs'.guild = obs.guild
  /\ mongoUp

\* C25: for a listed guild with the store available, after /domain sets the
\* preference to 'hentai' or 'anime' the next get_domain_for_guild for the guild
\* returns the matching hostname regardless of what was cached before; after
\* /domain sets 'auto' the stored preference is absent and the next call
\* returns what rules (b) to (e) yield.
C25_SetThenResolve ==
  [][ CallAfterDomainSet
        => /\ ~obs'.hit
           /\ obs.value = "hentai" => obs'.domain = "hentaidiscord.com"
           /\ obs.value = "anime" => obs'.domain = "animediscord.com"
           /\ obs.value = Absent
                => /\ servers[obs.guild].domainPreference = Absent
                   /\ obs'.domain = FirstRule(RuleValues(obs.guild, Absent, env))
    ]_vars

\* C25 witness: the call after /domain set 'anime' returned animediscord.com
\* although hentaidiscord.com was cached when the command ran
C25_Witness ==
  /\ obs.op = "get_domain" /\ obs.afterInvalidation /\ ~obs.hit /\ obs.readable
  /\ obs.old = "hentaidiscord.com"
  /\ obs.pref = "anime" /\ obs.domain = "animediscord.com"

\* ========================================================================
\* Claims about /bump
\* ========================================================================
\* the bumpedAt of the most recent record of guild g in the log (g has records)
LatestBumpedAt(log, g) ==
  CHOOSE t \in {r.bumpedAt : r \in log} :
    /\ \E r \in log : r.guildId = g /\ r.bumpedAt = t
    /\ \A r \in log : r.guildId = g => r.bumpedAt <= t

\* C3: for an opted-in guild whose store can be read, the cooldown check of /bump
\* rejects exactly when the guild has a bump record and now minus the most recent
\* bumpedAt is below one hour, and then reports the whole minutes left until
\* bumpedAt + 1 hour; with no record, or one hour or more elapsed, it accepts.
C3_CooldownCheck ==
  [][ \A u \in Users :
        (bump[u].pc = "deferred" /\ bump'[u].pc # "deferred"
           /\ mongoUp /\ OptedIn(servers[bump[u].guild]))
        => LET g == bump[u].guild
               hasRecord == \E r \in bot_bumps : r.guildId = g
               blocked == hasRecord /\ now - LatestBumpedAt(bot_bumps, g) < 3600
           IN /\ obs'.op = "bump" /\ obs'.user = u /\ obs'.guild = g
              /\ obs'.check = (IF blocked THEN "rejected" ELSE "accepted")
              /\ blocked =>
                   /\ obs'.reply = "cooldown"
                   /\ obs'.mins = (LatestBumpedAt(bot_bumps, g) + 3600 - now) \div 60
                   /\ bump'[u].pc = "idle"
              /\ ~blocked => obs'.reply # "cooldown"
    ]_vars

\* C3 witness: a /bump 30 minutes after the guild's latest bump was rejected
\* with 30 minutes remaining
C3_Witness ==
  /\ obs.op = "bump" /\ obs.reply = "cooldown" /\ obs.check = "rejected"
  /\ obs.mins = 30
  /\ \E r \in bot_bumps : r.guildId = obs.guild /\ obs.at - r.bumpedAt = 1800

\* C4 as stated: any two bump records of the same guild have bumpedAt values at
\* least one hour apart, whatever the interleaving of the /bump commands.
C4_Original ==
  \A r, q \in bot_bumps :
    (r # q /\ r.guildId = q.guildId)
      => (r.bumpedAt - q.bumpedAt >= 3600 \/ q.bumpedAt - r.bumpedAt >= 3600)

\* the records a command of user u in guild g, checked at time t, is to insert
BumpRecordOf(u, g, t) == [guildId |-> g, bumpedAt |-> t, userId |-> u]

BotReminderOf(u, g, t) ==
  [userId |-> u, guildId |-> g, remindAt |-> t + 3600, enabled |-> TRUE, createdAt |-> t]

\* the command of user u leaves the coroutine in this step, its cooldown check
\* having accepted
AcceptedBumpEnds(u) ==
  /\ bump[u].pc \in {"deferred", "sending"} /\ bump'[u].pc = "idle"
  /\ obs'.op = "bump" /\ obs'.user = u /\ obs'.check = "accepted"

\* C15 as stated: when an opted-in guild's /bump passes the cooldown check, the
\* command inserts exactly one bump record (the guild, the acting user, bumpedAt
\* = the time of the check) and, if the user's botRemindersEnabled is true, one
\* enabled bot reminder with remindAt = bumpedAt + 1 hour; if the setting is
\* false or absent, no reminder.
C15_Original ==
  [][ \A u \in Users :
        AcceptedBumpEnds(u)
        => LET g == bump[u].guild
               t == IF bump[u].pc = "sending" THEN bump[u].now ELSE now
           IN /\ BumpRecordOf(u, g, t) \notin bot_bumps
              /\ bot_bumps' = bot_bumps \cup {BumpRecordOf(u, g, t)}
              /\ bot_bump_reminders' =
                   IF user_settings[u] = "true"
                     THEN bot_bump_reminders \cup {BotReminderOf(u, g, t)}
                     ELSE bot_bump_reminders
    ]_vars

\* C15 amended: when an opted-in guild's /bump passes the cooldown check, finds
\* another opted-in guild and can build its advertisement, it attempts the
\* deliveries, and when the store is still available after them it inserts
\* exactly one bump record (the guild, the acting user, bumpedAt = the time of
\* the check); it inserts one enabled bot reminder with remindAt = bumpedAt + 1
\* hour if at least one delivery succeeded and the user's botRemindersEnabled is
\* true, and no reminder otherwise. A command that finds no other opted-in
\* guild, cannot build the advertisement or loses the store inserts nothing.
C15_AcceptedBumpRecords ==
  [][ \A u \in Users :
        AcceptedBumpEnds(u)
        => LET g == bump[u].guild
               completes == bump[u].pc = "sending" /\ mongoUp
           IN /\ bump[u].pc = "deferred"
                   => (OtherServers(servers, g) = <<>> \/ ~servers[g].categoriesOk)
              /\ completes
                   => /\ BumpRecordOf(u, g, bump[u].now) \notin bot_bumps
                      /\ bot_bumps' = bot_bumps \cup {BumpRecordOf(u, g, bump[u].now)}
                      /\ bot_bump_reminders' =
                           IF bump[u].sent_count > 0 /\ user_settings[u] = "true"
                             THEN bot_bump_reminders \cup {BotReminderOf(u, g, bump[u].now)}
                             ELSE bot_bump_reminders
              /\ ~completes => UNCHANGED <<bot_bumps, bot_bump_reminders>>
    ]_vars

\* C15 witness: a /bump of a user with reminders on, with one delivery made,
\* ended with its bump record and its reminder in the store
C15_Witness ==
  /\ obs.op = "bump" /\ obs.reply = "success" /\ obs.sent_count > 0
  /\ user_settings[obs.user] = "true"
  /\ BumpRecordOf(obs.user, obs.guild, obs.at) \in bot_bumps
  /\ BotReminderOf(obs.user, obs.guild, obs.at) \in bot_bump_reminders

\* the command of user u leaves the coroutine in this step after its delivery
\* loop has run
DeliveryLoopDone(u) ==
  /\ bump[u].pc = "sending" /\ bump'[u].pc = "idle"

\* C29 as stated: an accepted /bump inserts its bump record (and so starts the
\* one-hour cooldown) whatever the delivery results, including when every
\* delivery failed, but it creates the bot reminder only when at least one
\* delivery succeeded.
C29_Original ==
  [][ \A u \in Users :
        DeliveryLoopDone(u)
        => /\ \E r \in bot_bumps' :
                r.guildId = bump[u].guild /\ r.userId = u /\ r.bumpedAt = bump[u].now
           /\ bot_bump_reminders' # bot_bump_reminders => bump[u].sent_count > 0
    ]_vars

\* C29 amended: an accepted /bump whose delivery loop has run and which still
\* reaches the store afterwards inserts its bump record, from whose bumpedAt
\* the cooldown of the guild counts, whatever the delivery results, including
\* when every delivery failed; it creates the bot reminder only when at least
\* one delivery succeeded. When the store is lost before the insert, neither
\* record is written, whatever was delivered.
C29_RecordWhateverDeliveries ==
  [][ \A u \in Users :
        DeliveryLoopDone(u)
        => IF mongoUp
             THEN /\ \E r \in bot_bumps' :
                       r.guildId = bump[u].guild /\ r.userId = u /\ r.bumpedAt = bump[u].now
                  /\ LastBump(bot_bumps', bump[u].guild).present
                  /\ LastBump(bot_bumps', bump[u].guild).bumpedAt >= bump[u].now
                  /\ bot_bump_reminders' # bot_bump_reminders => bump[u].sent_count > 0
                  /\ bump[u].sent_count = 0 => bot_bump_reminders' = bot_bump_reminders
             ELSE UNCHANGED <<bot_bumps, bot_bump_reminders>>
    ]_vars

\* C29 witness: a /bump of a user with reminders on, all of whose deliveries
\* failed, ended with its bump record in the log and no reminder
C29_Witness ==
  /\ obs.op = "bump" /\ obs.reply = "success"
  /\ obs.sent_count = 0 /\ obs.failed_count > 0
  /\ user_settings[obs.user] = "true"
  /\ \E r \in bot_bumps : r.guildId = obs.guild /\ r.userId = obs.user /\ r.bumpedAt = obs.at
  /\ \A r \in bot_bump_reminders : ~(r.userId = obs.user /\ r.createdAt = obs.at)

\* the replies of a /bump that is turned away
BumpRejections ==
  {"rate_limited", "not_listed", "not_configured", "not_enabled", "cooldown", "no_others"}

\* the command of user u is turned away in this step
RejectedBumpEnds(u) ==
  /\ obs'.op = "bump" /\ obs'.user = u /\ obs'.reply \in BumpRejections
  /\ (bump[u].pc = "deferred" /\ bump'[u].pc = "idle") \/ obs' # obs

\* the guilds that are opted in
OptedInGuilds ==
  {h \in GuildIds : servers[h].present /\ servers[h].crossAdEnabled = "true"
                      /\ servers[h].crossAdChannelId # Absent}

\* a ground for turning away a /bump of guild g holds: the guild is not listed,
\* not opted in, in its cooldown, or alone
RejectionGround(g) ==
  \/ g \notin OptedInGuilds
  \/ \E r \in bot_bumps : r.guildId = g /\ now - r.bumpedAt < 3600
  \/ OptedInGuilds \ {g} = {}

\* C19: a /bump that is rejected (caller rate-limited, guild not listed, guild
\* listed but not opted in or without ad channel, cooldown active, or no other
\* opted-in guild) sends no advertisement and leaves the bump log, the reminder
\* collections, the guild records and the user settings unchanged.
C19_RejectedBumpFrame ==
  [][ \A u \in Users :
        /\ RejectedBumpEnds(u)
             => /\ bump[u].pc \in {"idle", "deferred"} /\ bump'[u].pc = "idle"
                /\ obs'.attempts = <<>>
                /\ UNCHANGED <<bot_bumps, bot_bump_reminders, bump_reminders, servers,
                               user_settings>>
        /\ (bump[u].pc = "deferred" /\ bump'[u].pc # "deferred" /\ mongoUp
              /\ RejectionGround(bump[u].guild))
             => RejectedBumpEnds(u)
    ]_vars

\* C19 witness: a /bump was turned away by the rate limit while the log held a
\* record and the reminder collection a reminder
C19_Witness ==
  /\ obs.op = "bump" /\ obs.reply = "rate_limited"
  /\ bump[obs.user].pc = "idle"
  /\ bot_bumps # {} /\ bot_bump_reminders # {}

\* ========================================================================
\* reminder_loop
\* ========================================================================
MaxReminderAdvances == 2
reminder_period == 60

\* (mutant) the query leaves out the 'enabled' condition
Due_IgnoreEnabled(coll, t) == {r \in coll : r.remindAt <= t}

\* (mutant) a record falling due exactly at the tick's time is not loaded
Due_Strict(coll, t) == {r \in coll : r.enabled /\ r.remindAt < t}

\* find({'remindAt': {'$lte': now}, 'enabled': True})
Due(coll, t) == {r \in coll : r.enabled /\ r.remindAt <= t}

\* the orders in which a cursor can hand out the documents of a result set
SeqsOf(S) ==
  {q \in [1..Cardinality(S) -> S] : \A i, j \in 1..Cardinality(S) : i # j => q[i] # q[j]}

\* the tick leaves the coroutine: by return, by the end of the body, or through
\* the outer except
RemEnd(r, outcome) ==
  [r EXCEPT !.pc = "idle", !.queue = <<>>, !.last = [outcome |-> outcome, now |-> r.now]]

\* due_bot_reminders = bot_reminders.find(...) and the start of its for loop
BotPhase(r, coll) ==
  {IF q = <<>> THEN RemEnd(r, "completed") ELSE [r EXCEPT !.pc = "bot", !.queue = q] :
     q \in SeqsOf(Due(coll, r.now))}

\* a tick, at least a minute after the previous one started:
\* safe_connect_mongo, the db-is-None return, now = utcnow(), the query for the
\* due website reminders, up to the first fetch_user
ReminderTick ==
  LET d == ConnectMongo(db, mongoUp)
      r == [rem EXCEPT !.ticks = rem.ticks + 1, !.now = now]
  IN /\ rem.pc = "idle"
     /\ rem.ticks = 0 \/ now >= rem.now + reminder_period
     /\ db' = d
     /\ IF d = "None" THEN rem' = RemEnd(r, "skipped")
        ELSE IF ~mongoUp THEN rem' = RemEnd(r, "aborted")
        ELSE \E q \in SeqsOf(Due(bump_reminders, now)) :
               IF q = <<>> THEN rem' \in BotPhase(r, bot_bump_reminders)
               ELSE rem' = [r EXCEPT !.pc = "site", !.queue = q]
     /\ UNCHANGED <<now, mongoUp, env, servers, domain_cache, server_cache, obs, lastCall, prefLog>>
     /\ UNCHANGED <<bumpVars, bot_bump_reminders, bump_reminders, adVars>>

\* delete_one({'_id': reminder['_id']}) and the step to the next record; a
\* raising delete_one leaves the tick through the outer except
DeleteAndNext(kind, r) ==
  LET head == Head(r.queue)
      rest == Tail(r.queue)
  IN IF ~mongoUp
       THEN /\ rem' = RemEnd(r, "aborted")
            /\ UNCHANGED <<bump_reminders, bot_bump_reminders>>
     ELSE IF kind = "site"
       THEN /\ bump_reminders' = bump_reminders \ {head}
            /\ UNCHANGED bot_bump_reminders
            /\ IF rest # <<>> THEN rem' = [r EXCEPT !.pc = "site", !.queue = rest]
               ELSE rem' \in BotPhase(r, bot_bump_reminders)
     ELSE /\ bot_bump_reminders' = bot_bump_reminders \ {head}
          /\ UNCHANGED bump_reminders
          /\ rem' = IF rest # <<>> THEN [r EXCEPT !.pc = "bot", !.queue = rest]
                    ELSE RemEnd(r, "completed")

FetchOutcomes == {"found", "fetch_failed"}
SendOutcomes == {"delivered", "failed"}

\* website reminder: fetch_user returns or raises; get_domain_for_guild and the
\* embed, up to user.send
SiteFetch(fo) ==
  LET head == Head(rem.queue)
      dom == get_domain_for_guild(head.guildId, domain_cache, db, mongoUp, servers, env, now)
  IN /\ rem.pc = "site"
     /\ IF fo = "found"
          THEN /\ domain_cache' = dom.cache
               /\ db' = dom.db
               /\ rem' = [rem EXCEPT !.pc = "site_sending"]
               /\ UNCHANGED <<bump_reminders, bot_bump_reminders>>
          ELSE /\ DeleteAndNext("site", rem)
               /\ UNCHANGED <<domain_cache, db>>
     /\ UNCHANGED <<now, mongoUp, env, servers, server_cache, obs, lastCall, prefLog>>
     /\ UNCHANGED <<bumpVars, adVars>>

\* user.send returns or raises; then the record is deleted
SiteSendDone(outcome) ==
  LET a == [kind |-> "site", rec |-> Head(rem.queue), tick |-> rem.ticks, outcome |-> outcome]
  IN /\ rem.pc = "site_sending"
     /\ DeleteAndNext("site", [rem EXCEPT !.dms = @ \cup {a}])
     /\ UNCHANGED <<coreVars, bumpVars, adVars>>

\* bot reminder: fetch_user and fetch_guild return or raise; the other_servers
\* query; the embed, up to user.send when there are other servers
BotFetch(fo) ==
  LET head == Head(rem.queue) IN
  /\ rem.pc = "bot"
  /\ IF fo = "found" /\ mongoUp /\ OtherServers(servers, head.guildId) # <<>>
       THEN /\ rem' = [rem EXCEPT !.pc = "bot_sending"]
            /\ UNCHANGED <<bump_reminders, bot_bump_reminders>>
       ELSE DeleteAndNext("bot", rem)
  /\ UNCHANGED <<coreVars, bumpVars, adVars>>

BotSendDone(outcome) ==
  LET a == [kind |-> "bot", rec |-> Head(rem.queue), tick |-> rem.ticks, outcome |-> outcome]
  IN /\ rem.pc = "bot_sending"
     /\ DeleteAndNext("bot", [rem EXCEPT !.dms = @ \cup {a}])
     /\ UNCHANGED <<coreVars, bumpVars, adVars>>

\* the time at which a reminder created by a /bump at time 0 falls due
ReminderStart == 0 + bump_cooldown

\* a minute passes
ReminderClock ==
  /\ now + reminder_period <= ReminderStart + MaxReminderAdvances * reminder_period
  /\ now' = now + reminder_period
  /\ UNCHANGED <<mongoUp, db, env, servers, domain_cache, server_cache, obs, lastCall, prefLog>>
  /\ UNCHANGED <<bumpVars, remVars, adVars>>

\* records of db['bump_reminders'], written by the website
SiteReminders ==
  { [_id |-> "s1", userId |-> "u1", guildId |-> "1", remindAt |-> 3600, enabled |-> TRUE],
    [_id |-> "s2", userId |-> "u2", guildId |-> "2", remindAt |-> 3660, enabled |-> TRUE],
    [_id |-> "s3", userId |-> "u1", guildId |-> "1", remindAt |-> 3600, enabled |-> FALSE] }

\* records of db['bot_bump_reminders'], as /bump inserts them
BotReminders ==
  { [userId |-> "u1", guildId |-> "1", remindAt |-> 3600, enabled |-> TRUE, createdAt |-> 0],
    [userId |-> "u2", guildId |-> "1", remindAt |-> 3720, enabled |-> TRUE, createdAt |-> 120] }

ReminderServerConfigs ==
  { [g \in GuildIds |-> IF g = "1" THEN In("c1") ELSE IF g = "2" THEN In("c2") ELSE NoEntry],
    [g \in GuildIds |-> IF g = "1" THEN In("c1") ELSE NoEntry] }

InitReminder ==
  /\ now = ReminderStart
  /\ mongoUp \in BOOLEAN
  /\ db = "None"
  /\ env = NoEnv
  /\ servers \in ReminderServerConfigs
  /\ domain_cache = [g \in GuildIds |-> NoEntry]
  /\ server_cache = [g \in GuildIds |-> NoEntry]
  /\ obs = NoObs
  /\ lastCall = [g \in GuildIds |-> NoCall]
  /\ prefLog = NoPrefLog
  /\ QuietBump /\ QuietAds
  /\ bump_reminders = SiteReminders
  /\ bot_bump_reminders = BotReminders
  /\ rem = [pc |-> "idle", now |-> 0, queue |-> <<>>, ticks |-> 0,
            last |-> [outcome |-> "none", now |-> 0], dms |-> {}]

NextReminder ==
  \/ ReminderTick
  \/ \E fo \in FetchOutcomes : SiteFetch(fo)
  \/ \E o \in SendOutcomes : SiteSendDone(o)
  \/ \E fo \in FetchOutcomes : BotFetch(fo)
  \/ \E o \in SendOutcomes : BotSendDone(o)
  \/ ReminderClock
  \/ MongoFails
  \/ MongoRecovers

SpecReminder == InitReminder /\ [][NextReminder]_vars

\* ========================================================================
\* Claims about reminder_loop
\* ========================================================================
\* the enabled records of either collection with remindAt at or before t
StillDue(t) ==
  {r \in bump_reminders \cup bot_bump_reminders : r.enabled = TRUE /\ ~(r.remindAt > t)}

\* C5 as stated: after one reminder_loop tick no enabled record of either
\* collection with remindAt at or before the tick's time remains, whatever
\* happened to its notification.
C5_Original ==
  (rem.pc = "idle" /\ rem.last.outcome # "none") => StillDue(rem.last.now) = {}

\* C5 amended: after one reminder_loop tick that finds the store available and
\* whose store operations all succeed, no enabled record of either collection
\* with remindAt at or before the tick's time remains, whether its notification
\* was delivered, failed or was not attempted.
C5_DueRemovedByCompletedTick ==
  (rem.pc = "idle" /\ rem.last.outcome = "completed") => StillDue(rem.last.now) = {}

\* C5 witness: completed ticks have removed a record whose notification was
\* delivered, one whose notification failed, and one that was due and got no
\* notification attempt
C5_Witness ==
  /\ rem.pc = "idle" /\ rem.last.outcome = "completed"
  /\ \E a \in rem.dms : a.outcome = "delivered" /\ a.rec \notin bump_reminders \cup bot_bump_reminders
  /\ \E a \in rem.dms : a.outcome = "failed" /\ a.rec \notin bump_reminders \cup bot_bump_reminders
  /\ \E r \in BotReminders :
       /\ r.enabled /\ r.remindAt <= rem.last.now
       /\ r \notin bot_bump_reminders
       /\ \A a \in rem.dms : a.rec # r

\* C6 as stated: over any sequence of ticks each reminder record causes at most
\* one notification attempt, and no attempt is repeated on a later tick.
C6_Original ==
  \A a, b \in rem.dms : (a.kind = b.kind /\ a.rec = b.rec) => a = b

\* the tick leaves the coroutine in this step through an error raised while it
\* scans or deletes site reminders
SitePhaseErrorEndsTick ==
  /\ rem.pc \in {"idle", "site", "site_sending"}
  /\ rem'.pc = "idle" /\ rem'.ticks > 0 /\ rem' # rem
  /\ rem'.last.outcome = "aborted"

\* C22 as stated: the two reminder kinds are processed independently: an error
\* raised while scanning, notifying or deleting site reminders in a tick does
\* not prevent the bot reminders that are due in the same tick from being
\* notified and deleted.
C22_Original ==
  [][ SitePhaseErrorEndsTick
        => {r \in bot_bump_reminders' : r.enabled /\ r.remindAt <= rem'.last.now} = {}
    ]_vars

\* C23: a reminder_loop tick notifies and deletes only records that are enabled
\* and whose remindAt is at or before the tick's time; every reminder record
\* that is disabled or not yet due is left unchanged and causes no notification.
C23_OnlyDueEnabledTouched ==
  [][ LET removed == (bump_reminders \ bump_reminders')
                       \cup (bot_bump_reminders \ bot_bump_reminders')
          notified == {a.rec : a \in rem'.dms \ rem.dms}
      IN /\ \A r \in removed \cup notified : r.enabled /\ r.remindAt <= rem'.now
         /\ bump_reminders' \subseteq bump_reminders
         /\ bot_bump_reminders' \subseteq bot_bump_reminders
    ]_vars

\* C23 witness: a completed tick has notified and removed due records while a
\* disabled record that is past its remindAt and records not yet due are still
\* in their collections, without any notification
C23_Witness ==
  /\ rem.pc = "idle" /\ rem.last.outcome = "completed" /\ rem.dms # {}
  /\ \E r \in bump_reminders :
       ~r.enabled /\ r.remindAt <= rem.last.now /\ \A a \in rem.dms : a.rec # r
  /\ \E r \in bump_reminders : r.enabled /\ r.remindAt > rem.last.now
  /\ \E r \in bot_bump_reminders : r.enabled /\ r.remindAt > rem.last.now
  /\ \A r \in bump_reminders \cup bot_bump_reminders :
       r.enabled => r.remindAt > rem.last.now

\* some guild other than g is opted in to cross-advertising
OtherGuildOptedIn(g) ==
  \E h \in GuildIds \ {g} :
    /\ servers[h].present /\ servers[h].crossAdEnabled = "true"
    /\ servers[h].crossAdChannelId # Absent

\* the tick handles the due bot reminder at the head of its queue in this step,
\* the store answering: fetch_user, fetch_guild, the other_servers query
BotReminderHandled ==
  /\ rem.pc = "bot" /\ rem' # rem /\ mongoUp

\* C28: for a due bot reminder, reminder_loop sends the notification only if at
\* least one guild other than the reminder's guild is opted in at that moment;
\* when there is none, no notification is sent and the record is deleted all
\* the same.
C28_BotReminderNeedsOtherGuild ==
  /\ [](\A a \in rem.dms : a.kind = "bot" => OtherGuildOptedIn(a.rec.guildId))
  /\ [][ BotReminderHandled
           => LET head == Head(rem.queue) IN
              /\ rem'.pc = "bot_sending" => OtherGuildOptedIn(head.guildId)
              /\ ~OtherGuildOptedIn(head.guildId)
                   => /\ rem'.pc # "bot_sending"
                      /\ rem'.dms = rem.dms
                      /\ bot_bump_reminders' = bot_bump_reminders \ {head}
       ]_vars

\* C28 witness: a completed tick has removed the due bot reminder of guild 1,
\* the only opted-in guild, without any notification for it
C28_Witness ==
  /\ rem.pc = "idle" /\ rem.last.outcome = "completed"
  /\ ~OtherGuildOptedIn("1")
  /\ \E r \in BotReminders :
       /\ r.guildId = "1" /\ r.remindAt <= rem.last.now
       /\ r \notin bot_bump_reminders
  /\ \A a \in rem.dms : a.kind # "bot"

\* ========================================================================
\* cross_ad_loop
\* ========================================================================
MaxCrossAdHours == 1
cross_ad_period == 3600

\* the tick leaves the coroutine
AdEnd(a, outcome) == [a EXCEPT !.pc = "idle", !.outcome = outcome]

\* an hourly tick: safe_connect_mongo, the db-is-None return,
\* all_servers = list(servers.find(...)) and the fewer-than-two return
CrossAdTick ==
  LET d == ConnectMongo(db, mongoUp)
      a == [ad EXCEPT !.ticks = ad.ticks + 1, !.at = now, !.loaded = <<>>, !.i = 1,
                      !.attempts = {}, !.failed = {}]
      all_servers == SelectSeq(GuildOrder, LAMBDA g : OptedIn(servers[g]))
  IN /\ ad.pc = "idle"
     /\ ad.ticks = 0 \/ now >= ad.at + cross_ad_period
     /\ db' = d
     /\ ad' = IF d = "None" THEN AdEnd(a, "skipped")
              ELSE IF ~mongoUp THEN AdEnd(a, "aborted")
              ELSE IF Len(all_servers) < 2
                THEN AdEnd([a EXCEPT !.loaded = all_servers, !.docs = servers], "noop")
              ELSE [a EXCEPT !.pc = "preparing", !.loaded = all_servers, !.docs = servers]
     /\ UNCHANGED <<now, mongoUp, env, servers, domain_cache, server_cache, obs, lastCall, prefLog>>
     /\ UNCHANGED <<bumpVars, remVars, cleanup>>

\* eligible = [s for s in all_servers if s['guildId'] != srv['guildId']]
Eligible(loaded, g) == {loaded[k] : k \in 1..Len(loaded)} \ {g}

\* ad_server = random.choice(eligible) and build_ad_embed(ad_server), which is
\* outside the per-guild try: when it raises the outer except ends the tick
AdPrepare(ad_server) ==
  LET srv == ad.loaded[ad.i]
      dom == get_domain_for_guild(ad_server, domain_cache, db, mongoUp, servers, env, now)
  IN /\ ad.pc = "preparing"
     /\ ad_server \in Eligible(ad.loaded, srv)
     /\ IF ~ad.docs[ad_server].categoriesOk
          THEN /\ ad' = AdEnd([ad EXCEPT !.failed = @ \cup {ad.i}], "aborted")
               /\ UNCHANGED <<domain_cache, db>>
          ELSE /\ ad' = [ad EXCEPT !.pc = "delivering", !.choice = ad_server]
               /\ domain_cache' = dom.cache
               /\ db' = dom.db
     /\ UNCHANGED <<now, mongoUp, env, servers, server_cache, obs, lastCall, prefLog>>
     /\ UNCHANGED <<bumpVars, remVars, cleanup>>

\* fetch_channel(srv['crossAdChannelId']) and channel.send inside the per-guild
\* try, then the next guild of the list
AdDeliver(outcome) ==
  LET srv == ad.loaded[ad.i]
      attempt == [pos |-> ad.i, to |-> srv, channel |-> ad.docs[srv].crossAdChannelId,
                  ad |-> ad.choice, outcome |-> outcome]
      a == [ad EXCEPT !.attempts = @ \cup {attempt},
                      !.failed = IF outcome = "failed" THEN @ \cup {ad.i} ELSE @,
                      !.i = @ + 1, !.choice = Absent]
  IN /\ ad.pc = "delivering"
     /\ ad' = IF ad.i = Len(ad.loaded) THEN AdEnd(a, "completed")
              ELSE [a EXCEPT !.pc = "preparing"]
     /\ UNCHANGED <<coreVars, bumpVars, remVars, cleanup>>

\* an hour passes
CrossAdClock ==
  /\ now + cross_ad_period <= MaxCrossAdHours * cross_ad_period
  /\ now' = now + cross_ad_period
  /\ UNCHANGED <<mongoUp, db, env, servers, domain_cache, server_cache, obs, lastCall, prefLog>>
  /\ UNCHANGED <<bumpVars, remVars, adVars>>

BadCategories(channel) == FullDoc(Absent, "true", channel, FALSE)

CrossAdServerConfigs ==
  { [g \in GuildIds |-> NoEntry],
    [g \in GuildIds |-> IF g = "1" THEN In("c1")
                         ELSE IF g = "2" THEN FullDoc(Absent, "false", "c2", TRUE) ELSE NoEntry],
    [g \in GuildIds |-> IF g = "1" THEN In("c1") ELSE IF g = "2" THEN In("c2") ELSE NoEntry],
    [g \in GuildIds |-> IF g = "1" THEN In("c1")
                         ELSE IF g = "2" THEN In("c2") ELSE FullDoc(Absent, Absent, "c12", TRUE)],
    [g \in GuildIds |-> IF g = "1" THEN In("c1")
                         ELSE IF g = "2" THEN BadCategories("c2") ELSE NoEntry],
    [g \in GuildIds |-> IF g = "1" THEN In("c1") ELSE IF g = "2" THEN In("c2") ELSE In("c12")],
    [g \in GuildIds |-> IF g = "1" THEN In("c1")
                         ELSE IF g = "2" THEN BadCategories("c2") ELSE In("c12")] }

InitCrossAd ==
  /\ now = 0
  /\ mongoUp \in BOOLEAN
  /\ db = "None"
  /\ env = NoEnv
  /\ servers \in CrossAdServerConfigs
  /\ domain_cache = [g \in GuildIds |-> NoEntry]
  /\ server_cache = [g \in GuildIds |-> NoEntry]
  /\ obs = NoObs
  /\ lastCall = [g \in GuildIds |-> NoCall]
  /\ prefLog = NoPrefLog
  /\ QuietBump /\ QuietReminders
  /\ cleanup = Idle
  /\ ad = [pc |-> "idle", ticks |-> 0, at |-> 0, loaded |-> <<>>, docs |-> servers, i |-> 1,
           choice |-> Absent, attempts |-> {}, failed |-> {}, outcome |-> "none"]

NextCrossAd ==
  \/ CrossAdTick
  \/ \E g \in GuildIds : AdPrepare(g)
  \/ \E o \in DeliveryOutcomes : AdDeliver(o)
  \/ CrossAdClock
  \/ MongoFails
  \/ MongoRecovers

SpecCrossAd == InitCrossAd /\ [][NextCrossAd]_vars

\* ========================================================================
\* Claims about cross_ad_loop
\* ========================================================================
AdTickEnded == ad.pc = "idle" /\ ad.outcome # "none"

\* C7 as stated: a tick that loads exactly two opted-in guilds A and B puts B's
\* advertisement into A's channel and A's advertisement into B's channel; a tick
\* that loads zero or one opted-in guild sends nothing.
C7_Original ==
  AdTickEnded =>
    /\ Len(ad.loaded) = 2 =>
         {<<x.channel, x.ad>> : x \in ad.attempts}
           = { <<servers[ad.loaded[1]].crossAdChannelId, ad.loaded[2]>>,
               <<servers[ad.loaded[2]].crossAdChannelId, ad.loaded[1]>> }
    /\ Len(ad.loaded) < 2 => ad.attempts = {}

\* C8 as stated: in a tick that loads two or more opted-in guilds, every loaded
\* guild gets exactly one delivery attempt, into its configured channel, of the
\* advertisement of a loaded guild other than itself.
C8_Original ==
  (AdTickEnded /\ Len(ad.loaded) >= 2) =>
    \A k \in 1..Len(ad.loaded) :
      /\ Cardinality({x \in ad.attempts : x.to = ad.loaded[k]}) = 1
      /\ \A x \in ad.attempts :
           x.to = ad.loaded[k] =>
             /\ x.channel = servers[ad.loaded[k]].crossAdChannelId
             /\ x.ad # ad.loaded[k]
             /\ \E j \in 1..Len(ad.loaded) : x.ad = ad.loaded[j]

\* C9 as stated: a failure while preparing or delivering the advertisement for
\* one guild does not abort the tick: every guild after it in the loaded list
\* still gets its delivery attempt, and no delivery is attempted twice.
C9_Original ==
  AdTickEnded =>
    /\ \A k \in ad.failed : \A j \in (k + 1)..Len(ad.loaded) :
         \E x \in ad.attempts : x.pos = j /\ x.to = ad.loaded[j]
    /\ \A x, y \in ad.attempts : x.pos = y.pos => x = y

\* ========================================================================
\* /setadchannel, /enablecrossad, /refresh
\* ========================================================================
refresh_rate_limit == 10

\* (mutant) the update inserts a record when the guild has none
SetField_Upsert(srv, g, field, value) ==
  IF srv[g].present THEN [srv EXCEPT ![g][field] = value]
  ELSE [srv EXCEPT ![g] = [ServerDoc(Absent) EXCEPT ![field] = value]]

\* servers.update_one({'guildId': g}, {'$set': {field: value}}): no upsert
SetField(srv, g, field, value) ==
  IF srv[g].present THEN [srv EXCEPT ![g][field] = value] ELSE srv

\* the body shared by set_ad_channel and enable_cross_ad after their permission
\* checks: the store check, the cached listing check, update_one and the
\* invalidation of the server cache; denied is the reply of a failed
\* permission check, Absent when the checks pass
ConfigCommand(op, g, field, value, denied) ==
  LET d == ConnectMongo(db, mongoUp)
      r == get_server_data_cached(g, server_cache, d, mongoUp, servers, now)
      after == SetField(servers, g, field, value)
      reply(x) == [op |-> op, guild |-> g, reply |-> x, listed |-> servers[g].present,
                   up |-> mongoUp, connected |-> d # "None", hit |-> r.hit,
                   found |-> r.data.present, wrote |-> FALSE, applied |-> FALSE,
                   cacheChanged |-> x \in {"not_listed", "database_error"}
                                      /\ r.cache # server_cache]
  IN /\ UNCHANGED <<now, mongoUp, env, domain_cache, lastCall, prefLog>>
     /\ UNCHANGED <<bumpVars, remVars, adVars>>
     /\ IF denied # Absent
          THEN /\ obs' = reply(denied)
               /\ UNCHANGED <<db, servers, server_cache>>
        ELSE IF d = "None"
          THEN /\ obs' = reply("unavailable")
               /\ db' = d
               /\ UNCHANGED <<servers, server_cache>>
        ELSE IF ~r.data.present
          THEN /\ obs' = reply("not_listed")
               /\ db' = d
               /\ server_cache' = r.cache
               /\ UNCHANGED servers
        ELSE IF ~mongoUp
          THEN \* update_one raises; caught at the command boundary
               /\ obs' = reply("database_error")
               /\ db' = d
               /\ server_cache' = r.cache
               /\ UNCHANGED servers
        ELSE /\ servers' = after
             /\ db' = d
             /\ server_cache' = invalidate_server_cache(r.cache, g)
             /\ obs' = [op |-> op, guild |-> g, reply |-> "ok",
                        listed |-> servers[g].present, up |-> mongoUp,
                        connected |-> d # "None", hit |-> r.hit, found |-> r.data.present,
                        wrote |-> after # servers,
                        applied |-> servers[g].present /\ after[g][field] = value,
                        cacheChanged |-> TRUE,
                        field |-> field, value |-> value,
                        invServer |-> TRUE, invDomain |-> FALSE,
                        oldServer |-> CachedValue(r.cache, g, "data"), oldDomain |-> Absent]

\* /setadchannel channel:<channel>
set_ad_channel(g, channel, admin, permsOk) ==
  ConfigCommand("setadchannel", g, "crossAdChannelId", channel,
                IF ~admin THEN "not_administrator"
                ELSE IF ~permsOk THEN "channel_permissions" ELSE Absent)

\* /enablecrossad enabled:<bool>
enable_cross_ad(g, enabled, admin) ==
  ConfigCommand("enablecrossad", g, "crossAdEnabled", enabled,
                IF ~admin THEN "not_administrator" ELSE Absent)

\* /refresh: the rate limit, the deletion of both cache entries, then
\* get_server_data_cached and, when no record is found, get_domain_for_guild
refresh_command(u, g) ==
  LET rl == is_rate_limited(command_cooldowns, u, "refresh", refresh_rate_limit, now)
      cleared == invalidate_server_cache(server_cache, g)
      clearedDomains == delete_domain_entry(domain_cache, g)
      r == get_server_data_cached(g, cleared, db, mongoUp, servers, now)
      dom == get_domain_for_guild(g, clearedDomains, r.db, mongoUp, servers, env, now)
      base == [op |-> "refresh", guild |-> g, listed |-> servers[g].present, up |-> mongoUp,
               connected |-> ConnectMongo(db, mongoUp) # "None"]
  IN /\ command_cooldowns' = rl.cooldowns
     /\ UNCHANGED <<now, mongoUp, env, servers, lastCall, prefLog>>
     /\ UNCHANGED <<bot_bumps, user_settings, bump, remVars, adVars>>
     /\ IF rl.limited
          THEN /\ obs' = base @@ [reply |-> "rate_limited", cacheChanged |-> FALSE]
               /\ UNCHANGED <<db, server_cache, domain_cache>>
          ELSE /\ db' = r.db
               /\ server_cache' = r.cache
               /\ domain_cache' = IF r.data.present THEN clearedDomains ELSE dom.cache
               /\ obs' = base @@
                    [reply |-> IF r.data.present THEN "refreshed" ELSE "not_found",
                     hit |-> r.hit, data |-> r.data, doc |-> servers[g],
                     readable |-> StoreReadable(db, mongoUp),
                     domainHit |-> dom.hit, domain |-> dom.domain,
                     pref |-> StoredPref(servers, g),
                     afterInvalidation |-> TRUE,
                     old |-> CachedValue(server_cache, g, "data"),
                     cacheChanged |-> r.cache # server_cache
                                       \/ (IF r.data.present THEN clearedDomains ELSE dom.cache)
                                            # domain_cache]

\* the website adds the guild's record to db['servers'] or removes it
WebsiteLists(g) ==
  /\ ~servers[g].present
  /\ servers' = [servers EXCEPT ![g] = ServerDoc(Absent)]
  /\ UNCHANGED <<now, mongoUp, db, env, domain_cache, server_cache, obs, lastCall, prefLog>>
  /\ UNCHANGED <<bumpVars, remVars, adVars>>

WebsiteDelists(g) ==
  /\ servers[g].present
  /\ servers' = [servers EXCEPT ![g] = NoEntry]
  /\ UNCHANGED <<now, mongoUp, db, env, domain_cache, server_cache, obs, lastCall, prefLog>>
  /\ UNCHANGED <<bumpVars, remVars, adVars>>

MaxCommandAdvances == 2
CommandTimeStep == 150

CommandClock ==
  /\ now + CommandTimeStep <= MaxCommandAdvances * CommandTimeStep
  /\ now' = now + CommandTimeStep
  /\ UNCHANGED <<mongoUp, db, env, servers, domain_cache, server_cache, obs, lastCall, prefLog>>
  /\ UNCHANGED <<bumpVars, remVars, adVars>>

CommandGuilds == {"1"}

InitCommands ==
  /\ now = 0
  /\ mongoUp \in BOOLEAN
  /\ db = "None"
  /\ env = NoEnv
  /\ \E d \in {NoEntry, ServerDoc(Absent)} :
       servers = [g \in GuildIds |-> IF g \in CommandGuilds THEN d ELSE NoEntry]
  /\ domain_cache = [g \in GuildIds |-> NoEntry]
  /\ server_cache = [g \in GuildIds |-> NoEntry]
  /\ obs = NoObs
  /\ lastCall = [g \in GuildIds |-> NoCall]
  /\ prefLog = NoPrefLog
  /\ QuietBump /\ QuietReminders /\ QuietAds

NextCommands ==
  \/ \E g \in CommandGuilds : GetServerDataCall(g)
  \/ \E g \in CommandGuilds, s \in {"anime", "auto"}, admin \in BOOLEAN :
       DomainCommand(g, s, admin) /\ UNCHANGED prefLog
  \/ \E g \in CommandGuilds, admin \in BOOLEAN, permsOk \in BOOLEAN :
       set_ad_channel(g, "c1", admin, permsOk)
  \/ \E g \in CommandGuilds, e \in {"true", "false"}, admin \in BOOLEAN :
       enable_cross_ad(g, e, admin)
  \/ \E g \in CommandGuilds : refresh_command("u1", g)
  \/ \E g \in CommandGuilds : WebsiteLists(g)
  \/ \E g \in CommandGuilds : WebsiteDelists(g)
  \/ CommandClock
  \/ MongoFails
  \/ MongoRecovers

SpecCommands == InitCommands /\ [][NextCommands]_vars

\* ========================================================================
\* Claims about the commands that configure a guild
\* ========================================================================
\* the observation is an access of the server cache that directly follows the
\* deletion of the guild's entry
ServerAccessAfterInvalidation ==
  \/ obs.op = "get_server_data" /\ obs.afterInvalidation
  \/ obs.op = "refresh" /\ obs.reply # "rate_limited"

\* C11 as stated: after a guild's cache entry is invalidated, the next access for
\* the guild reads the store and returns the store's current content, never the
\* value cached before.
C11_Original ==
  /\ ServerAccessAfterInvalidation => (~obs.hit /\ obs.data = obs.doc)
  /\ (obs.op = "refresh" /\ obs.reply = "not_found")
       => (~obs.domainHit /\ obs.domain = FirstRule(RuleValues(obs.guild, obs.pref, env)))

\* C11 amended: after a guild's cache entry is invalidated, the next access for
\* the guild is never answered from the cache; it returns the store's current
\* content when the store can be read, and otherwise no record (server data) or
\* the hostname of the environment rules (domain).
C11_InvalidationForcesRead ==
  /\ ServerAccessAfterInvalidation
       => /\ ~obs.hit
          /\ obs.data = (IF obs.readable THEN obs.doc ELSE NoEntry)
  /\ (obs.op = "refresh" /\ obs.reply = "not_found")
       => /\ ~obs.domainHit
          /\ obs.domain = FirstRule(RuleValues(obs.guild,
                                    IF obs.readable THEN obs.pref ELSE Absent, env))

\* C11 witness: an access right after an invalidating command returned the
\* store's updated record, which differs from the record that was cached
C11_Witness ==
  /\ obs.op = "get_server_data" /\ obs.afterInvalidation /\ obs.readable
  /\ obs.old.present /\ obs.old # obs.data
  /\ obs.data = servers[obs.guild] /\ obs.data.present

\* a configuring command of guild g, run with the store available and past its
\* permission checks, answers in this step
ConfigCommandAnswers(g) ==
  /\ obs'.op \in InvalidatingOps /\ obs'.guild = g
  /\ obs'.reply \in {"not_listed", "ok"} /\ obs'.up
  /\ obs' # obs

\* C18 as stated: with the store available, setadchannel, enablecrossad and
\* domain answer 'Server Not Listed' and write nothing if and only if the guild
\* has no record in the store at the time of the command; when the guild has a
\* record they apply the requested update to it.
C18_Original ==
  (obs.op \in InvalidatingOps /\ obs.up /\ obs.reply \in {"not_listed", "ok"})
    => /\ (obs.reply = "not_listed") <=> ~obs.listed
       /\ obs.reply = "not_listed" => ~obs.wrote
       /\ obs.listed => obs.applied

\* C18 amended: with the store available, the three commands answer 'Server Not
\* Listed' and write nothing if and only if the guild's lookup finds no record,
\* the lookup being the server-cache entry when one younger than 300 seconds
\* exists (a cached miss included) and the store at the time of the command
\* otherwise; when the lookup finds a record they run the update, which sets
\* the requested field in the guild's record if the store still holds one and
\* changes nothing otherwise.
C18_ListingCheckThroughCache ==
  [][ \A g \in GuildIds :
        ConfigCommandAnswers(g)
        => LET e == server_cache[g]
               fresh == e.present /\ now - e.timestamp < 300
               found == IF fresh THEN e.data.present ELSE servers[g].present
           IN /\ (obs'.reply = "not_listed") <=> ~found
              /\ obs'.reply = "not_listed" => servers' = servers
              /\ obs'.reply = "ok"
                   => servers' = IF servers[g].present
                                   THEN [servers EXCEPT ![g][obs'.field] = obs'.value]
                                   ELSE servers
    ]_vars

\* C18 witness: /setadchannel of a listed guild, its lookup answered by the
\* store, set the channel in the guild's record
C18_Witness ==
  /\ obs.op = "setadchannel" /\ obs.reply = "ok" /\ ~obs.hit /\ obs.listed
  /\ obs.wrote /\ servers[obs.guild].present
  /\ servers[obs.guild].crossAdChannelId = obs.value

\* the replies given before a command turns to the store
EarlyReplies == {"not_administrator", "channel_permissions", "rate_limited"}

\* C17 as stated: when the store is unavailable at invocation, a command that
\* uses the store (here setadchannel, enablecrossad, domain, refresh) aborts
\* with the 'temporarily unavailable' reply and changes no store record and no
\* cache entry.
C17_Original ==
  (obs.op \in InvalidatingOps \cup {"refresh"} /\ ~obs.connected
     /\ obs.reply \notin EarlyReplies)
    => /\ obs.reply = "unavailable"
       /\ ~obs.cacheChanged
       /\ obs.op # "refresh" => ~obs.wrote

\* ========================================================================
\* cleanup_loop
\* ========================================================================
cleanup_period == 86400
bump_retention == 2592000
reminder_retention == 604800
MaxCleanupDays == 1

\* (mutant) a bump record exactly 30 days old is purged too
OldBumps_Inclusive(log, t) == {r \in log : r.bumpedAt <= t - bump_retention}

\* delete_many({'bumpedAt': {'$lt': thirty_days_ago}})
OldBumps(log, t) == {r \in log : r.bumpedAt < t - bump_retention}

\* delete_many({'createdAt': {'$lt': seven_days_ago}})
OldReminders(coll, t) == {r \in coll : r.createdAt < t - reminder_retention}

\* (mutant) no entry is pruned
clear_expired_cache_Keep(cache, t) == cache

\* clear_expired_cache, for one of the two caches
clear_expired_cache(cache, t) ==
  [g \in DOMAIN cache |->
     IF cache[g].present /\ t - cache[g].timestamp > cache_ttl THEN NoEntry ELSE cache[g]]

\* a daily tick: safe_connect_mongo, the db-is-None return, the two delete_many
\* and clear_expired_cache; a raising delete_many leaves through the except
CleanupTick ==
  LET d == ConnectMongo(db, mongoUp)
      outcome == IF d = "None" THEN "skipped" ELSE IF ~mongoUp THEN "aborted" ELSE "completed"
  IN /\ cleanup.ticks = 0 \/ now >= cleanup.at + cleanup_period
     /\ db' = d
     /\ cleanup' = [pc |-> "idle", ticks |-> cleanup.ticks + 1, at |-> now, outcome |-> outcome,
                    bumpsBefore |-> bot_bumps, botBefore |-> bot_bump_reminders,
                    siteBefore |-> bump_reminders]
     /\ IF outcome = "completed"
          THEN /\ bot_bumps' = bot_bumps \ OldBumps(bot_bumps, now)
               /\ bot_bump_reminders' = bot_bump_reminders \ OldReminders(bot_bump_reminders, now)
               /\ domain_cache' = clear_expired_cache(domain_cache, now)
               /\ server_cache' = clear_expired_cache(server_cache, now)
          ELSE UNCHANGED <<bot_bumps, bot_bump_reminders, domain_cache, server_cache>>
     /\ UNCHANGED <<now, mongoUp, env, servers, obs, lastCall, prefLog>>
     /\ UNCHANGED <<user_settings, command_cooldowns, bump, bump_reminders, rem, ad>>

\* the time of the first tick: the oldest records are then exactly at, or one
\* second past, their retention windows
CleanupStart == 0 + bump_retention

\* a second passes after a whole day, or the rest of the day passes
CleanupClock(d) ==
  /\ now + d <= CleanupStart + MaxCleanupDays * cleanup_period + 1
  /\ IF (now - CleanupStart) % cleanup_period = 0 THEN d \in {1, cleanup_period}
     ELSE d = cleanup_period - 1 \/ d = cleanup_period
  /\ now' = now + d
  /\ UNCHANGED <<mongoUp, db, env, servers, domain_cache, server_cache, obs, lastCall, prefLog>>
  /\ UNCHANGED <<bumpVars, remVars, adVars>>

CleanupTimeSteps == {1, cleanup_period - 1, cleanup_period}

\* the bump log: one record a second past the window, one exactly 30 days old,
\* one of the last hour
CleanupBumps ==
  { [guildId |-> "1", bumpedAt |-> 0 - 1, userId |-> "u1"],
    [guildId |-> "1", bumpedAt |-> 0, userId |-> "u2"],
    [guildId |-> "2", bumpedAt |-> CleanupStart - bump_cooldown, userId |-> "u1"] }

CleanupBotReminders ==
  { [userId |-> "u1", guildId |-> "1", remindAt |-> CleanupStart - reminder_retention + bump_cooldown - 1,
     enabled |-> FALSE, createdAt |-> CleanupStart - reminder_retention - 1],
    [userId |-> "u2", guildId |-> "1", remindAt |-> CleanupStart - reminder_retention + bump_cooldown,
     enabled |-> FALSE, createdAt |-> CleanupStart - reminder_retention],
    [userId |-> "u1", guildId |-> "2", remindAt |-> CleanupStart + bump_cooldown,
     enabled |-> TRUE, createdAt |-> CleanupStart] }

\* site reminders written by the website, here with their creation time
CleanupSiteReminders ==
  { [_id |-> "s1", userId |-> "u1", guildId |-> "1", remindAt |-> CleanupStart - reminder_retention,
     enabled |-> FALSE, createdAt |-> CleanupStart - reminder_retention - 1],
    [_id |-> "s2", userId |-> "u2", guildId |-> "2", remindAt |-> CleanupStart + bump_cooldown,
     enabled |-> TRUE, createdAt |-> CleanupStart] }

\* cache entries left by earlier calls: exactly cache_ttl old, one second older,
\* and fresh
CleanupCaches ==
  [g \in GuildIds |->
     IF g = "1" THEN [present |-> TRUE, timestamp |-> CleanupStart - cache_ttl]
     ELSE IF g = "2" THEN [present |-> TRUE, timestamp |-> CleanupStart - cache_ttl - 1]
     ELSE [present |-> TRUE, timestamp |-> CleanupStart]]

InitCleanup ==
  /\ now = CleanupStart
  /\ mongoUp \in BOOLEAN
  /\ db \in {"None", "conn"}
  /\ env = NoEnv
  /\ servers = [g \in GuildIds |-> IF g = "1" THEN ServerDoc(Absent) ELSE NoEntry]
  /\ domain_cache = [g \in GuildIds |-> CleanupCaches[g] @@ [domain |-> "hentaidiscord.com"]]
  /\ server_cache = [g \in GuildIds |-> CleanupCaches[g] @@ [data |-> servers[g]]]
  /\ obs = NoObs
  /\ lastCall = [g \in GuildIds |-> NoCall]
  /\ prefLog = NoPrefLog
  /\ bot_bumps = CleanupBumps
  /\ user_settings = [u \in Users |-> Absent]
  /\ command_cooldowns = [k \in Users \X {"bump", "refresh"} |-> NoEntry]
  /\ bump = [u \in Users |-> Idle]
  /\ bot_bump_reminders = CleanupBotReminders
  /\ bump_reminders = CleanupSiteReminders
  /\ rem = Idle
  /\ ad = Idle
  /\ cleanup = [pc |-> "idle", ticks |-> 0, at |-> 0, outcome |-> "none",
                bumpsBefore |-> {}, botBefore |-> {}, siteBefore |-> {}]

NextCleanup ==
  \/ CleanupTick
  \/ \E d \in CleanupTimeSteps : CleanupClock(d)
  \/ \E g \in GuildIds : GetServerDataCall(g)
  \/ MongoFails
  \/ MongoRecovers

SpecCleanup == InitCleanup /\ [][NextCleanup]_vars

\* ========================================================================
\* Claims about cleanup_loop
\* ========================================================================
\* the records of a collection that are not older than the window at time t,
\* their age counted from the given field
NotOlderThan(coll, field, t, window) == {r \in coll : ~(t - r[field] > window)}

\* C12 as stated: a cleanup tick removes every bump record whose bumpedAt is
\* more than 30 days before the tick and no bump record 30 days old or younger.
C12_Original ==
  cleanup.outcome # "none"
    => bot_bumps = NotOlderThan(cleanup.bumpsBefore, "bumpedAt", cleanup.at, 30 * 86400)

\* C12 amended: a cleanup tick that finds the store available and whose store
\* operations succeed removes every bump record whose bumpedAt is more than 30
\* days before the tick and no bump record 30 days old or younger; a tick that
\* finds the store unavailable, or whose delete fails, removes no bump record.
C12_BumpRetention ==
  /\ cleanup.outcome = "completed"
       => bot_bumps = NotOlderThan(cleanup.bumpsBefore, "bumpedAt", cleanup.at, 30 * 86400)
  /\ cleanup.outcome \in {"skipped", "aborted"} => bot_bumps = cleanup.bumpsBefore

\* C12 witness: a completed tick removed a record one second past 30 days and
\* kept a record exactly 30 days old
C12_Witness ==
  /\ cleanup.outcome = "completed"
  /\ \E r \in cleanup.bumpsBefore \ bot_bumps : cleanup.at - r.bumpedAt = 30 * 86400 + 1
  /\ \E r \in bot_bumps : cleanup.at - r.bumpedAt = 30 * 86400

\* C13 as stated: a cleanup tick (one that runs to its end) removes every
\* reminder record of both kinds that is older than 7 days, and no reminder
\* record younger than 7 days.
C13_Original ==
  cleanup.outcome = "completed"
    => /\ bot_bump_reminders
            = NotOlderThan(cleanup.botBefore, "createdAt", cleanup.at, 7 * 86400)
       /\ bump_reminders
            = NotOlderThan(cleanup.siteBefore, "createdAt", cleanup.at, 7 * 86400)

\* the cache holds no entry older than 300 seconds at time t
NoEntryOlderThanTtl(cache, t) ==
  \A g \in GuildIds : cache[g].present => ~(t - cache[g].timestamp > 300)

MaxLifecycleAdvances == 2

LifecycleUsers == {"u1"}

\* the hour of the cooldown passes, then minutes
LifecycleClock ==
  LET d == IF now < bump_cooldown THEN bump_cooldown - now ELSE reminder_period IN
  /\ now + d <= bump_cooldown + (MaxLifecycleAdvances - 1) * reminder_period
  /\ now' = now + d
  /\ UNCHANGED <<mongoUp, db, env, servers, domain_cache, server_cache, obs, lastCall, prefLog>>
  /\ UNCHANGED <<bumpVars, remVars, adVars>>

InitLifecycle ==
  /\ now = 0
  /\ mongoUp = TRUE
  /\ db = "None"
  /\ env = NoEnv
  /\ servers = [g \in GuildIds |-> IF g = "1" THEN In("c1") ELSE IF g = "2" THEN In("c2") ELSE NoEntry]
  /\ domain_cache = [g \in GuildIds |-> NoEntry]
  /\ server_cache = [g \in GuildIds |-> NoEntry]
  /\ obs = NoObs
  /\ lastCall = [g \in GuildIds |-> NoCall]
  /\ prefLog = NoPrefLog
  /\ bot_bumps = {}
  /\ user_settings = [u \in Users |-> IF u = "u1" THEN "true" ELSE Absent]
  /\ command_cooldowns = [k \in Users \X {"bump", "refresh"} |-> NoEntry]
  /\ bump = [u \in Users |-> Idle]
  /\ bump_reminders =
       {[_id |-> "s1", userId |-> "u1", guildId |-> "1", remindAt |-> bump_cooldown,
         enabled |-> TRUE]}
  /\ bot_bump_reminders = {}
  /\ rem = [pc |-> "idle", now |-> 0, queue |-> <<>>, ticks |-> 0,
            last |-> [outcome |-> "none", now |-> 0], dms |-> {}]
  /\ ad = Idle
  /\ cleanup = [pc |-> "idle", ticks |-> 0, at |-> 0, outcome |-> "none",
                bumpsBefore |-> {}, botBefore |-> {}, siteBefore |-> {}]

NextLifecycle ==
  \/ \E u \in LifecycleUsers, g \in BumpGuilds : BumpInvoke(u, g)
  \/ \E u \in LifecycleUsers : BumpCheck(u)
  \/ \E u \in LifecycleUsers, o \in DeliveryOutcomes : BumpDeliver(u, o)
  \/ \E u \in LifecycleUsers : BumpRecord(u)
  \/ ReminderTick
  \/ \E fo \in FetchOutcomes : SiteFetch(fo)
  \/ \E o \in SendOutcomes : SiteSendDone(o)
  \/ \E fo \in FetchOutcomes : BotFetch(fo)
  \/ \E o \in SendOutcomes : BotSendDone(o)
  \/ CleanupTick
  \/ LifecycleClock

SpecLifecycle == InitLifecycle /\ [][NextLifecycle]_vars

\* C14 as stated: in every state reachable through /bump commands,
\* reminder_loop ticks and cleanup ticks, bot_bump_reminders holds at most one
\* record per (user, guild) pair.
C14_Original ==
  \A r, q \in bot_bump_reminders :
    (r.userId = q.userId /\ r.guildId = q.guildId) => r = q

\* ========================================================================
\* the deliveries of /bump, with several recipients
\* ========================================================================
DeliveryServerConfigs ==
  { [g \in GuildIds |-> In("c" \o g)],
    [g \in GuildIds |-> IF g = "12" THEN FullDoc(Absent, "false", "c12", TRUE) ELSE In("c" \o g)],
    [g \in GuildIds |-> IF g = "1" THEN FullDoc(Absent, "true", "c1", FALSE) ELSE In("c" \o g)] }

InitDelivery ==
  /\ now = 0
  /\ mongoUp = TRUE
  /\ db = "None"
  /\ env = NoEnv
  /\ servers \in DeliveryServerConfigs
  /\ domain_cache = [g \in GuildIds |-> NoEntry]
  /\ server_cache = [g \in GuildIds |-> NoEntry]
  /\ obs = NoObs
  /\ lastCall = [g \in GuildIds |-> NoCall]
  /\ prefLog = NoPrefLog
  /\ bot_bumps = {}
  /\ user_settings = [u \in Users |-> IF u = "u1" THEN "true" ELSE Absent]
  /\ command_cooldowns = [k \in Users \X {"bump", "refresh"} |-> NoEntry]
  /\ bump = [u \in Users |-> Idle]
  /\ QuietReminders /\ QuietAds

NextDelivery ==
  \/ \E u \in LifecycleUsers, g \in BumpGuilds : BumpInvoke(u, g)
  \/ \E u \in LifecycleUsers : BumpCheck(u)
  \/ \E u \in LifecycleUsers, o \in DeliveryOutcomes : BumpDeliver(u, o)
  \/ \E u \in LifecycleUsers : BumpRecord(u)
  \/ \E d \in BumpTimeSteps : BumpClock(d)
  \/ MongoFails

SpecDelivery == InitDelivery /\ [][NextDelivery]_vars

\* the other guilds that are opted in, for a /bump of guild g
Recipients(g) ==
  {h \in GuildIds : h # g /\ servers[h].present /\ servers[h].crossAdEnabled = "true"
                      /\ servers[h].crossAdChannelId # Absent}

\* every recipient has exactly one attempt in the sequence and no one else has
\* any
OneAttemptEach(attempts, g) ==
  /\ \A h \in Recipients(g) : Cardinality({k \in 1..Len(attempts) : attempts[k].to = h}) = 1
  /\ \A k \in 1..Len(attempts) : attempts[k].to \in Recipients(g)

\* the attempts of the outcome counted
Counted(attempts, outcome) ==
  Cardinality({k \in 1..Len(attempts) : attempts[k].outcome = outcome})

\* a /bump that was not rejected has left the coroutine
AcceptedBumpEnded ==
  /\ obs.op = "bump" /\ obs.check = "accepted"
  /\ obs.reply \in {"success", "database_error"}

\* C16 as stated: an accepted /bump attempts exactly one delivery to the channel
\* of every other opted-in guild and none to the bumping guild; a failure for
\* one recipient is counted and skipped and does not prevent the attempts for
\* the remaining ones, so sent_count + failed_count never exceeds the number of
\* other opted-in guilds.
C16_Original ==
  /\ AcceptedBumpEnded => OneAttemptEach(obs.attempts, obs.guild)
  /\ \A u \in Users :
       bump[u].pc = "sending"
         => bump[u].sent_count + bump[u].failed_count <= Cardinality(Recipients(bump[u].guild))

\* C16 amended: an accepted /bump whose advertisement can be built attempts
\* exactly one delivery to the channel of every other opted-in guild and none
\* to the bumping guild; a failure for one recipient is counted and skipped and
\* does not prevent the attempts for the remaining ones, so sent_count +
\* failed_count never exceeds the number of other opted-in guilds. When the
\* advertisement cannot be built the command ends with no attempt at all.
C16_DeliveryAttempts ==
  /\ AcceptedBumpEnded
       => IF servers[obs.guild].categoriesOk
            THEN OneAttemptEach(obs.attempts, obs.guild)
            ELSE obs.attempts = <<>>
  /\ obs.op = "bump" /\ obs.reply = "success"
       => /\ obs.sent_count = Counted(obs.attempts, "sent")
          /\ obs.failed_count = Counted(obs.attempts, "failed")
  /\ \A u \in Users :
       bump[u].pc = "sending"
         => LET b == bump[u] IN
            /\ Len(b.attempts) = b.i - 1
            /\ \A k \in 1..Len(b.attempts) : b.attempts[k].to \in Recipients(b.guild)
            /\ \A j, k \in 1..Len(b.attempts) : j # k => b.attempts[j].to # b.attempts[k].to
            /\ b.sent_count = Counted(b.attempts, "sent")
            /\ b.failed_count = Counted(b.attempts, "failed")
            /\ b.sent_count + b.failed_count <= Cardinality(Recipients(b.guild))

\* C16 witness: a /bump with two recipients ended after a failed delivery to the
\* first and a successful one to the second
C16_Witness ==
  /\ obs.op = "bump" /\ obs.reply = "success"
  /\ Len(obs.attempts) = 2
  /\ obs.attempts[1].outcome = "failed" /\ obs.attempts[2].outcome = "sent"
  /\ obs.failed_count = 1 /\ obs.sent_count = 1

\* ========================================================================
\* the resolver under preference changes over time
\* ========================================================================
MaxPreferenceAdvances == 3
MaxPrefChanges == 1
PreferenceTimeStep == 150

\* the history after the step: a change of the guild's stored preference is
\* appended with its time
LogPreference(g) ==
  prefLog' = IF StoredPref(servers', g) # StoredPref(servers, g)
               THEN [prefLog EXCEPT ![g] = Append(@, [pref |-> StoredPref(servers', g), at |-> now])]
               ELSE prefLog

\* /domain set_domain:<hentai|anime|auto> by an administrator
SetPreference(g, s) ==
  /\ Len(prefLog[g]) <= MaxPrefChanges
  /\ DomainCommand(g, s, TRUE)
  /\ LogPreference(g)

\* the website writes the guild's domainPreference in db['servers']
WebsiteSetsPreference(g, p) ==
  /\ Len(prefLog[g]) <= MaxPrefChanges
  /\ servers[g].present /\ servers[g].domainPreference # p
  /\ servers' = [servers EXCEPT ![g].domainPreference = p]
  /\ LogPreference(g)
  /\ UNCHANGED <<now, mongoUp, db, env, domain_cache, server_cache, obs, lastCall>>
  /\ UNCHANGED <<bumpVars, remVars, adVars>>

PreferenceClock ==
  /\ now + PreferenceTimeStep <= MaxPreferenceAdvances * PreferenceTimeStep
  /\ now' = now + PreferenceTimeStep
  /\ UNCHANGED <<mongoUp, db, env, servers, domain_cache, server_cache, obs, lastCall, prefLog>>
  /\ UNCHANGED <<bumpVars, remVars, adVars>>

InitPreference ==
  /\ now = 0
  /\ mongoUp = TRUE
  /\ db = "None"
  /\ env \in {e \in DomainEnvs : e.LOAD_BALANCE_DOMAINS = "true"}
  /\ servers = [g \in GuildIds |-> IF g \in DomainGuilds THEN ServerDoc("hentai") ELSE NoEntry]
  /\ domain_cache = [g \in GuildIds |-> NoEntry]
  /\ server_cache = [g \in GuildIds |-> NoEntry]
  /\ obs = NoObs
  /\ lastCall = [g \in GuildIds |-> NoCall]
  /\ prefLog = PrefLogOf(servers, now)
  /\ QuietBump /\ QuietReminders /\ QuietAds

NextPreference ==
  \/ \E g \in DomainGuilds : GetDomainCall(g)
  \/ \E g \in DomainGuilds, s \in {"anime", "auto"} : SetPreference(g, s)
  \/ \E g \in DomainGuilds, p \in {"hentai", "anime"} : WebsiteSetsPreference(g, p)
  \/ PreferenceClock
  \/ MongoFails
  \/ MongoRecovers

SpecPreference == InitPreference /\ [][NextPreference]_vars

\* the preferences the store held for guild g at some moment of the w seconds
\* up to time t
HeldWithin(g, t, w) ==
  LET log == prefLog[g] IN
  {log[i].pref : i \in {j \in 1..Len(log) : j = Len(log) \/ log[j + 1].at >= t - w}}

\* the hostname of the precedence chain for a stored preference
ChainOf(g, pref) == FirstRule(RuleValues(g, pref, env))

\* a call of get_domain_for_guild for guild g returns in this step
DomainCallReturns(g) ==
  obs'.op = "get_domain" /\ obs'.guild = g /\ obs' # obs

\* C21 as stated: under fixed configuration the hostname get_domain_for_guild
\* returns equals the precedence chain applied to the guild's stored preference
\* as it is at the call or as it was at some moment within the preceding 300
\* seconds, after any preference changes, cache accesses and store outages.
C21_Original ==
  [][ \A g \in GuildIds :
        DomainCallReturns(g)
        => obs'.domain \in {ChainOf(g, p) : p \in HeldWithin(g, now, 300)}
    ]_vars

\* C21 amended: the hostname is the precedence chain applied to the preference
\* as the resolver read it: a call that finds no entry younger than 300 seconds
\* reads the store and uses the preference stored at the call, or no preference
\* when the store cannot be read, and leaves that hostname in the cache; a
\* call that finds such an entry returns its hostname, which is the chain of a
\* preference stored within the preceding 300 seconds or of no preference.
C21_ChainOfPreferenceAsRead ==
  [][ \A g \in GuildIds :
        DomainCallReturns(g)
        => LET e == domain_cache[g]
               fresh == e.present /\ now - e.timestamp < 300
           IN IF fresh
                THEN /\ obs'.domain = e.domain
                     /\ UNCHANGED domain_cache
                     /\ obs'.domain \in {ChainOf(g, p) :
                                          p \in HeldWithin(g, now, 300) \cup {Absent}}
                ELSE /\ obs'.domain =
                          ChainOf(g, IF mongoUp THEN StoredPref(servers, g) ELSE Absent)
                     /\ domain_cache'[g] =
                          [present |-> TRUE, domain |-> obs'.domain, timestamp |-> now]
    ]_vars

\* C21 witness: a call answered from the cache returned the hostname of the
\* preference that the website replaced less than 300 seconds before
C21_Witness ==
  /\ obs.op = "get_domain" /\ obs.hit /\ obs.entryAge = 150
  /\ obs.pref = "anime" /\ obs.domain = "hentaidiscord.com"
  /\ Len(prefLog[obs.guild]) = 2 /\ prefLog[obs.guild][1].pref = "hentai"

\* ========================================================================
\* cross_ad_loop with /enablecrossad commands in between
\* ========================================================================
InitCrossAdRace ==
  /\ now = 0
  /\ mongoUp = TRUE
  /\ db = "None"
  /\ env = NoEnv
  /\ servers = [g \in GuildIds |-> IF g = "12" THEN FullDoc(Absent, "false", "c12", TRUE)
                                    ELSE In("c" \o g)]
  /\ domain_cache = [g \in GuildIds |-> NoEntry]
  /\ server_cache = [g \in GuildIds |-> NoEntry]
  /\ obs = NoObs
  /\ lastCall = [g \in GuildIds |-> NoCall]
  /\ prefLog = NoPrefLog
  /\ QuietBump /\ QuietReminders
  /\ cleanup = Idle
  /\ ad = [pc |-> "idle", ticks |-> 0, at |-> 0, loaded |-> <<>>, docs |-> servers, i |-> 1,
           choice |-> Absent, attempts |-> {}, failed |-> {}, outcome |-> "none"]

\* the guilds whose administrators run /enablecrossad during the tick
RaceGuilds == {"2", "12"}

NextCrossAdRace ==
  \/ CrossAdTick
  \/ \E g \in GuildIds : AdPrepare(g)
  \/ \E o \in DeliveryOutcomes : AdDeliver(o)
  \/ \E g \in RaceGuilds, e \in {"true", "false"} : enable_cross_ad(g, e, TRUE)
  \/ CrossAdClock

SpecCrossAdRace == InitCrossAdRace /\ [][NextCrossAdRace]_vars

\* the record of guild g, as the tick loaded it, is opted in
LoadedOptedIn(g) ==
  /\ ad.docs[g].present /\ ad.docs[g].crossAdEnabled = "true"
  /\ ad.docs[g].crossAdChannelId # Absent

\* C24: a cross_ad_loop tick acts on the guild records it loaded at its start: a
\* guild that was not opted in at that moment neither receives an advertisement
\* nor is advertised in that tick, whatever enable/disable commands interleave
\* with the deliveries, and the tick itself writes nothing to the store.
C24_TickActsOnLoadedSet ==
  /\ [](\A x \in ad.attempts :
          /\ LoadedOptedIn(x.to) /\ LoadedOptedIn(x.ad)
          /\ x.channel = ad.docs[x.to].crossAdChannelId)
  /\ [](ad.pc # "idle" /\ ad.choice # Absent => LoadedOptedIn(ad.choice))
  /\ [][ ad' # ad => UNCHANGED <<servers, bot_bumps, bot_bump_reminders, bump_reminders,
                                 user_settings>> ]_vars

\* C24 witness: a tick ran to its end after a recipient it had loaded was
\* disabled and a guild it had not loaded was enabled: the first got its
\* delivery, the second none
C24_Witness ==
  /\ ad.pc = "idle" /\ ad.outcome = "completed"
  /\ \E x \in ad.attempts : servers[x.to].crossAdEnabled = "false"
  /\ \E g \in GuildIds :
       /\ servers[g].present /\ servers[g].crossAdEnabled = "true" /\ ~LoadedOptedIn(g)
       /\ \A x \in ad.attempts : x.to # g /\ x.ad # g

\* ---------------------------------------------------------------------------
\* is_rate_limited on its own: calls of two users for /bump and /refresh
\* ---------------------------------------------------------------------------

MaxRateLimitTime == 10

\* the moments at which calls are made: 4 and 9 seconds after the first lie
\* inside the windows of /bump (5 s) and /refresh (10 s), 5 and 10 at their ends
RateLimitTimes == {0, 4, 5, 9, 10}
RateLimitKeys == Users \X {"bump", "refresh"}

\* the calls made: two users of /bump, one of them also using /refresh
RateLimitCalls == {<<"u1", "bump">>, <<"u2", "bump">>, <<"u1", "refresh">>}

\* the cooldown_seconds each command passes to is_rate_limited
RateLimitOf(command) == IF command = "bump" THEN bump_rate_limit ELSE refresh_rate_limit

\* one call of bot.is_rate_limited(u, command, c); the observation keeps, per
\* key, the time of the latest call that returned False and whether a call has
\* returned True since
RateLimitCall(u, command) ==
  LET rl == is_rate_limited(command_cooldowns, u, command, RateLimitOf(command), now)
      k == <<u, command>>
  IN /\ command_cooldowns' = rl.cooldowns
     /\ obs' = [op |-> "is_rate_limited", user |-> u, command |-> command, at |-> now,
                limited |-> rl.limited,
                afterRejection |-> k \in obs.rejected,
                accepted |-> IF rl.limited THEN obs.accepted
                             ELSE [obs.accepted EXCEPT ![k] = [present |-> TRUE, at |-> now]],
                rejected |-> IF rl.limited THEN obs.rejected \cup {k}
                             ELSE obs.rejected \ {k}]
     /\ UNCHANGED <<now, mongoUp, db, env, servers, domain_cache, server_cache, lastCall, prefLog>>
     /\ UNCHANGED <<bot_bumps, user_settings, bump, remVars, adVars>>

RateLimitClock(t) ==
  /\ now < t /\ t <= MaxRateLimitTime
  /\ now' = t
  /\ UNCHANGED <<mongoUp, db, env, servers, domain_cache, server_cache, obs, lastCall, prefLog>>
  /\ UNCHANGED <<bumpVars, remVars, adVars>>

InitRateLimit ==
  /\ now = 0
  /\ mongoUp = TRUE
  /\ db = "None"
  /\ env = NoEnv
  /\ servers = [g \in GuildIds |-> ServerDoc(Absent)]
  /\ domain_cache = [g \in GuildIds |-> NoEntry]
  /\ server_cache = [g \in GuildIds |-> NoEntry]
  /\ obs = [op |-> "none", accepted |-> [k \in RateLimitKeys |-> NoEntry], rejected |-> {}]
  /\ lastCall = [g \in GuildIds |-> NoCall]
  /\ prefLog = NoPrefLog
  /\ QuietBump /\ QuietReminders /\ QuietAds

NextRateLimit ==
  \/ \E k \in RateLimitCalls : RateLimitCall(k[1], k[2])
  \/ \E t \in RateLimitTimes : RateLimitClock(t)

SpecRateLimit == InitRateLimit /\ [][NextRateLimit]_vars

\* C26: is_rate_limited(user, command, c) returns True exactly when an earlier
\* call for the same (user, command) that returned False happened less than c
\* seconds before; a call that returns True leaves the stored timestamp as it
\* is, and a call changes nothing under the key of another user or command.
C26_RateLimitWindow ==
  [][ obs' # obs
        => LET k == <<obs'.user, obs'.command>>
               last == obs.accepted[k]
           IN /\ obs'.limited
                   <=> (last.present /\ now - last.at < RateLimitOf(obs'.command))
              /\ obs'.limited => command_cooldowns' = command_cooldowns
              /\ \A j \in RateLimitKeys \ {k} : command_cooldowns'[j] = command_cooldowns[j]
    ]_vars

\* C26 witness: a /bump call of u1 is accepted exactly 5 seconds after the
\* accepted call before it although a rejected call of u1 lies in between,
\* while u2 has an accepted /bump call inside its own window
C26_Witness ==
  /\ obs.op = "is_rate_limited" /\ ~obs.limited /\ obs.afterRejection
  /\ obs.user = "u1" /\ obs.command = "bump" /\ obs.at = bump_rate_limit
  /\ obs.accepted[<<"u2", "bump">>].present
  /\ obs.at - obs.accepted[<<"u2", "bump">>].at < bump_rate_limit

\* ---------------------------------------------------------------------------
\* /toggle_bot_reminders
\* ---------------------------------------------------------------------------

\* (mutant) a missing setting counts as enabled
ToggledSetting_AbsentEnabled(current) == IF current = "false" THEN "true" ELSE "false"

\* new_setting = not (current_setting and current_setting.get('botRemindersEnabled', False))
ToggledSetting(current) == IF current = "true" THEN "false" ELSE "true"

\* the command run by user u; the observation keeps, per user, the setting
\* stored before that user's latest successful toggle
toggle_bot_reminders(u) ==
  LET conn == ConnectMongo(db, mongoUp)
      new == ToggledSetting(user_settings[u])
  IN /\ db' = conn
     /\ IF conn = "None"
          THEN /\ obs' = [op |-> "toggle_bot_reminders", user |-> u, reply |-> "unavailable",
                          new |-> Absent, twiceFrom |-> "none", was |-> obs.was]
               /\ UNCHANGED user_settings
          ELSE IF ~mongoUp
          THEN /\ obs' = [op |-> "toggle_bot_reminders", user |-> u, reply |-> "database_error",
                          new |-> Absent, twiceFrom |-> "none", was |-> obs.was]
               /\ UNCHANGED user_settings
          ELSE /\ user_settings' = [user_settings EXCEPT ![u] = new]
               /\ obs' = [op |-> "toggle_bot_reminders", user |-> u, reply |-> "toggled",
                          new |-> new, twiceFrom |-> obs.was[u],
                          was |-> [obs.was EXCEPT ![u] = user_settings[u]]]
     /\ UNCHANGED <<now, mongoUp, env, servers, domain_cache, server_cache, lastCall, prefLog>>
     /\ UNCHANGED <<bot_bumps, command_cooldowns, bump, remVars, adVars>>

InitToggle ==
  /\ now = 0
  /\ mongoUp \in BOOLEAN
  /\ db = "None"
  /\ env = NoEnv
  /\ servers = [g \in GuildIds |-> IF g = "1" THEN In("c1") ELSE NoEntry]
  /\ domain_cache = [g \in GuildIds |-> NoEntry]
  /\ server_cache = [g \in GuildIds |-> NoEntry]
  /\ obs = [op |-> "none", was |-> [u \in Users |-> "none"]]
  /\ lastCall = [g \in GuildIds |-> NoCall]
  /\ prefLog = NoPrefLog
  /\ bot_bumps = {}
  /\ user_settings \in [Users -> {Absent, "true", "false"}]
  /\ command_cooldowns = [k \in Users \X {"bump", "refresh"} |-> NoEntry]
  /\ bump = [u \in Users |-> Idle]
  /\ bump_reminders = {}
  /\ bot_bump_reminders = BotReminders
  /\ rem = Idle
  /\ QuietAds

NextToggle ==
  \/ \E u \in Users : toggle_bot_reminders(u)
  \/ MongoFails
  \/ MongoRecovers

SpecToggle == InitToggle /\ [][NextToggle]_vars

\* botRemindersEnabled as the commands read it: a missing setting is false
RemindersEnabled(setting) == setting = "true"

\* C27: toggle_bot_reminders flips the caller's botRemindersEnabled (an absent
\* setting counts as false, so the first toggle enables), two successive toggles
\* by the same user restore the original value, and the command changes nothing
\* else: the settings of other users and the bot-reminder records already
\* scheduled stay as they are.
C27_ToggleFlipsOwnSetting ==
  [][ (obs' # obs /\ obs'.op = "toggle_bot_reminders")
        => LET u == obs'.user IN
           /\ obs'.reply = "toggled"
                => /\ RemindersEnabled(user_settings'[u]) = ~RemindersEnabled(user_settings[u])
                   /\ user_settings[u] = Absent => user_settings'[u] = "true"
                   /\ obs.was[u] # "none"
                        => RemindersEnabled(user_settings'[u]) = RemindersEnabled(obs.was[u])
           /\ \A v \in Users \ {u} : user_settings'[v] = user_settings[v]
           /\ UNCHANGED <<bot_bump_reminders, bump_reminders, bot_bumps, servers>>
    ]_vars

\* C27 witness: the second toggle of u1, whose setting was absent at first, has
\* disabled the reminders again while u2 stays enabled and the scheduled
\* reminder of u1 is still there
C27_Witness ==
  /\ obs.op = "toggle_bot_reminders" /\ obs.reply = "toggled" /\ obs.user = "u1"
  /\ obs.twiceFrom = Absent /\ user_settings["u1"] = "false"
  /\ user_settings["u2"] = "true"
  /\ \E r \in bot_bump_reminders : r.userId = "u1" /\ r.enabled

\* ---------------------------------------------------------------------------
\* the three timers on one store that fails and recovers
\* ---------------------------------------------------------------------------

MaxTimerDays == 1

\* the first ticks come when the oldest bump record is one second past its
\* retention window
TimersStart == 1 + bump_retention

\* the moments at which the timers are looked at: the start and every day
\* after it, when the period of each of the three loops has passed again
TimerMoments(days) == {TimersStart + k * cleanup_period : k \in 0..days}

\* time passes up to the next of these moments
TimersClock ==
  LET later == {t \in TimerMoments(MaxTimerDays) : t > now} IN
  /\ later # {}
  /\ now' = CHOOSE t \in later : \A q \in later : t <= q
  /\ UNCHANGED <<mongoUp, db, env, servers, domain_cache, server_cache, obs, lastCall, prefLog>>
  /\ UNCHANGED <<bumpVars, remVars, adVars>>

InitTimers ==
  /\ now = TimersStart
  /\ mongoUp \in BOOLEAN
  /\ db \in {"None", "conn"}
  /\ env = NoEnv
  /\ servers = [g \in GuildIds |-> IF g = "1" THEN In("c1") ELSE IF g = "2" THEN In("c2") ELSE NoEntry]
  /\ domain_cache = [g \in GuildIds |-> NoEntry]
  /\ server_cache = [g \in GuildIds |-> NoEntry]
  /\ obs = NoObs
  /\ lastCall = [g \in GuildIds |-> NoCall]
  /\ prefLog = NoPrefLog
  /\ bot_bumps = {[guildId |-> "1", bumpedAt |-> 0, userId |-> "u1"],
                  [guildId |-> "2", bumpedAt |-> TimersStart - bump_cooldown, userId |-> "u2"]}
  /\ user_settings = [u \in Users |-> IF u = "u2" THEN "true" ELSE Absent]
  /\ command_cooldowns = [k \in Users \X {"bump", "refresh"} |-> NoEntry]
  /\ bump = [u \in Users |-> Idle]
  /\ bump_reminders = {}
  /\ bot_bump_reminders = {BotReminderOf("u2", "2", TimersStart - bump_cooldown)}
  /\ rem = [pc |-> "idle", now |-> 0, queue |-> <<>>, ticks |-> 0,
            last |-> [outcome |-> "none", now |-> 0], dms |-> {}]
  /\ ad = [pc |-> "idle", ticks |-> 0, at |-> 0, loaded |-> <<>>, docs |-> servers, i |-> 1,
           choice |-> Absent, attempts |-> {}, failed |-> {}, outcome |-> "none"]
  /\ cleanup = [pc |-> "idle", ticks |-> 0, at |-> 0, outcome |-> "none",
                bumpsBefore |-> {}, botBefore |-> {}, siteBefore |-> {}]

NextTimers ==
  \/ ReminderTick
  \/ BotFetch("found")
  \/ BotSendDone("delivered")
  \/ CrossAdTick
  \/ \E g \in GuildIds : AdPrepare(g)
  \/ AdDeliver("sent")
  \/ CleanupTick
  \/ TimersClock
  \/ MongoFails
  \/ MongoRecovers

SpecTimers == InitTimers /\ [][NextTimers]_vars

\* the outcomes of a tick that found the store unavailable when it started
NoOpOutcomes == {"skipped", "aborted"}

\* a tick of the loop starts in this step
ReminderTickStarts == rem.pc = "idle" /\ rem'.ticks = rem.ticks + 1
CrossAdTickStarts == ad.pc = "idle" /\ ad'.ticks = ad.ticks + 1
CleanupTickRuns == cleanup'.ticks = cleanup.ticks + 1

\* the records of the sequence q
RangeOf(q) == {q[i] : i \in 1..Len(q)}

\* C30: when the store is unavailable at the start of a timer tick, the tick is
\* a no-op: reminder_loop deletes no reminder and sends no notification,
\* cross_ad_loop sends no advertisement, cleanup_loop deletes no record; the
\* tick does not stop the timer, and the next tick with the store available
\* again processes the records that are due then.
C30_StoreDownTickIsNoOp ==
  /\ [][ (ReminderTickStarts /\ ~mongoUp)
           => /\ rem'.pc = "idle" /\ rem'.last.outcome \in NoOpOutcomes
              /\ rem'.dms = rem.dms
              /\ UNCHANGED <<bump_reminders, bot_bump_reminders, bot_bumps, servers>>
       ]_vars
  /\ [][ (CrossAdTickStarts /\ ~mongoUp)
           => /\ ad'.pc = "idle" /\ ad'.outcome \in NoOpOutcomes
              /\ ad'.attempts = {}
              /\ UNCHANGED <<bump_reminders, bot_bump_reminders, bot_bumps, servers>>
       ]_vars
  /\ [][ (CleanupTickRuns /\ ~mongoUp)
           => /\ cleanup'.outcome \in NoOpOutcomes
              /\ UNCHANGED <<bump_reminders, bot_bump_reminders, bot_bumps, servers>>
       ]_vars
  /\ [][ (ReminderTickStarts /\ mongoUp /\ rem.last.outcome \in NoOpOutcomes)
           => LET site == {r \in bump_reminders : r.enabled /\ r.remindAt <= now}
                  bots == {r \in bot_bump_reminders : r.enabled /\ r.remindAt <= now}
              IN IF site # {} THEN rem'.pc = "site" /\ RangeOf(rem'.queue) = site
                 ELSE IF bots # {} THEN rem'.pc = "bot" /\ RangeOf(rem'.queue) = bots
                 ELSE rem'.pc = "idle" /\ rem'.last.outcome = "completed"
       ]_vars
  /\ [][ (CrossAdTickStarts /\ mongoUp /\ ad.outcome \in NoOpOutcomes)
           => /\ RangeOf(ad'.loaded) = OptedInGuilds
              /\ Cardinality(OptedInGuilds) >= 2 => ad'.pc = "preparing"
       ]_vars
  /\ [][ (CleanupTickRuns /\ mongoUp /\ cleanup.outcome \in NoOpOutcomes)
           => /\ cleanup'.outcome = "completed"
              /\ bot_bumps' = {r \in bot_bumps : ~(now - r.bumpedAt > 30 * 86400)}
              /\ bot_bump_reminders'
                   = {r \in bot_bump_reminders : ~(now - r.createdAt > 7 * 86400)}
       ]_vars
  /\ []((rem.pc = "idle" /\ rem.ticks > 0 /\ now >= rem.now + reminder_period)
           => ENABLED ReminderTick)
  /\ []((ad.pc = "idle" /\ ad.ticks > 0 /\ now >= ad.at + cross_ad_period)
           => ENABLED CrossAdTick)
  /\ []((cleanup.ticks > 0 /\ now >= cleanup.at + cleanup_period) => ENABLED CleanupTick)

\* C30 witness: the first cleanup tick found the store unavailable and the
\* first ticks of all three loops left every record in place; a day later the
\* second ticks, with the store available again, have removed the bump record
\* past its window, notified and removed the due bot reminder, and delivered
\* the advertisements
C30_Witness ==
  /\ cleanup.ticks = 2 /\ cleanup.outcome = "completed"
  /\ \E r \in cleanup.bumpsBefore \ bot_bumps : r.bumpedAt = 0
  /\ cleanup.botBefore = {BotReminderOf("u2", "2", TimersStart - bump_cooldown)}
  /\ rem.ticks = 2 /\ rem.pc = "idle" /\ rem.last.outcome = "completed"
  /\ rem.dms # {} /\ \A a \in rem.dms : a.tick = 2
  /\ bot_bump_reminders = {}
  /\ ad.ticks = 2 /\ ad.outcome = "completed" /\ ad.attempts # {}

====
